---- MODULE Spec2Model ----
(***************************************************************************)
(* The Telegram <-> Codex bridge (class TelegramCodexBridge): its backend   *)
(* process supervision, JSON-RPC correlation, per-chat session registry    *)
(* and prompt dispatcher, as a state machine.                              *)
(*                                                                         *)
(* One action is one macrotask of the Node.js event loop (a Telegram       *)
(* update, a backend output line, a timer, a process event, the completion *)
(* of an HTTP request) together with the promise continuations it          *)
(* triggers, which run before the next macrotask.                          *)
(***************************************************************************)
EXTENDS Integers, Sequences, FiniteSets, TLC

(***************************************************************************)
(* Bounds of the model.                                                    *)
(***************************************************************************)
MaxProc == 1        \* backend processes spawned while prompts are dispatched
MaxStarts == 2      \* backend processes spawned in the supervisor's specification
MaxPrompts == 2     \* prompt messages received from the configured chat
MaxResets == 1      \* /reset commands received
MaxNotes == 1       \* backend notifications handled
MaxRpc == 6         \* RPC ids assigned
MaxStops == 2       \* stop() calls suspended at the same poll loop
MaxRequests == 1    \* backend-initiated requests handled
MaxDropped == 1     \* blank or unparseable lines handled

(***************************************************************************)
(* Strings are sequences of one-character strings, so that trim(),         *)
(* toLowerCase(), includes() and a regular expression's prefix test are    *)
(* computed and not assumed.                                               *)
(***************************************************************************)
UpperChars == <<"A","B","C","D","E","F","G","H","I","J","K","L","M",
                "N","O","P","Q","R","S","T","U","V","W","X","Y","Z">>
LowerChars == <<"a","b","c","d","e","f","g","h","i","j","k","l","m",
                "n","o","p","q","r","s","t","u","v","w","x","y","z">>

ToLowerChar(c) ==
    IF \E i \in 1..Len(UpperChars) : UpperChars[i] = c
    THEN LowerChars[CHOOSE i \in 1..Len(UpperChars) : UpperChars[i] = c]
    ELSE c

ToLowerCase(s) == [i \in 1..Len(s) |-> ToLowerChar(s[i])]

IsSpace(c) == c \in {" ", "\t", "\n", "\r"}

RECURSIVE TrimStart(_)
TrimStart(s) ==
    IF Len(s) > 0 /\ IsSpace(s[1]) THEN TrimStart(Tail(s)) ELSE s

RECURSIVE TrimEnd(_)
TrimEnd(s) ==
    IF Len(s) > 0 /\ IsSpace(s[Len(s)]) THEN TrimEnd(SubSeq(s, 1, Len(s) - 1)) ELSE s

Trim(s) == TrimEnd(TrimStart(s))

Includes(s, sub) ==
    \E i \in 1..(Len(s) - Len(sub) + 1) : SubSeq(s, i, i + Len(sub) - 1) = sub

StartsWith(s, prefix) ==
    Len(s) >= Len(prefix) /\ SubSeq(s, 1, Len(prefix)) = prefix

S_conversation == <<"c","o","n","v","e","r","s","a","t","i","o","n">>
S_session == <<"s","e","s","s","i","o","n">>
S_id == <<"i","d">>
S_type == <<"t","y","p","e">>
S_text == <<"t","e","x","t">>
S_tool == <<"t","o","o","l">>
S_content == <<"c","o","n","t","e","n","t">>
S_isError == <<"i","s","E","r","r","o","r">>
S_rolloutPath == <<"r","o","l","l","o","u","t","P","a","t","h">>
S_conversationId == <<"c","o","n","v","e","r","s","a","t","i","o","n","I","d">>
S_sessionId == <<"s","e","s","s","i","o","n","I","d">>
S_msg == <<"m","s","g">>

(***************************************************************************)
(* JSON values as JSON.parse produces them: a tree of objects (ordered     *)
(* key/value entries), arrays (entries keyed by index), strings, booleans  *)
(* and null; Undefined is the value of an absent property.                 *)
(***************************************************************************)
JStr(s) == [t |-> "str", s |-> s, e |-> <<>>, b |-> FALSE]
JObj(e) == [t |-> "obj", s |-> <<>>, e |-> e, b |-> FALSE]
JBool(b) == [t |-> "bool", s |-> <<>>, e |-> <<>>, b |-> b]
JNull == [t |-> "null", s |-> <<>>, e |-> <<>>, b |-> FALSE]
Undefined == [t |-> "undef", s |-> <<>>, e |-> <<>>, b |-> FALSE]
Digits == <<"0","1","2","3","4","5","6","7","8","9">>
JArr(a) == [t |-> "arr", s |-> <<>>, e |-> [i \in 1..Len(a) |-> <<(<<Digits[i]>>), a[i]>>], b |-> FALSE]

\* typeof v === 'object' && v !== null
IsObject(v) == v.t \in {"obj", "arr"}

\* JavaScript truthiness of a JSON value
Truthy(v) ==
    CASE v.t = "str" -> Len(v.s) > 0
      [] v.t = "bool" -> v.b
      [] v.t \in {"obj", "arr"} -> TRUE
      [] OTHER -> FALSE

\* v?.key
Get(v, key) ==
    IF v.t = "obj" /\ \E i \in 1..Len(v.e) : v.e[i][1] = key
    THEN v.e[CHOOSE i \in 1..Len(v.e) : v.e[i][1] = key][2]
    ELSE Undefined

\* null, as the value of an id
NoId == <<>>

\* a fault: every object counts as a conversation container
looksLikeAnyContainer(obj) == IsObject(obj)

looksLikeConversationContainer(obj) ==
    IF ~IsObject(obj) THEN FALSE
    ELSE LET type == Get(obj, S_type) IN
         \/ /\ type.t = "str"
            /\ \/ Includes(ToLowerCase(type.s), S_conversation)
               \/ Includes(ToLowerCase(type.s), S_session)
         \/ \E i \in 1..Len(obj.e) :
               \/ Includes(ToLowerCase(obj.e[i][1]), S_conversation)
               \/ Includes(ToLowerCase(obj.e[i][1]), S_session)

\* the for loop over Object.entries(current), from entry i on: the id it
\* returns, or the object-valued entries it pushes onto the queue
RECURSIVE scanEntries(_, _, _)
scanEntries(current, i, pushed) ==
    IF i > Len(current.e) THEN [hit |-> FALSE, id |-> NoId, pushed |-> pushed]
    ELSE LET key == current.e[i][1]
             value == current.e[i][2]
             normalizedKey == ToLowerCase(key)
             trimmed == Trim(value.s)
         IN  IF value.t = "str"
             THEN IF /\ \/ Includes(normalizedKey, S_conversation) /\ Includes(normalizedKey, S_id)
                        \/ Includes(normalizedKey, S_session) /\ Includes(normalizedKey, S_id)
                     /\ Len(trimmed) > 0
                  THEN [hit |-> TRUE, id |-> trimmed, pushed |-> pushed]
                  ELSE IF /\ normalizedKey = S_id
                          /\ looksLikeConversationContainer(current)
                          /\ Len(trimmed) > 0
                       THEN [hit |-> TRUE, id |-> trimmed, pushed |-> pushed]
                       ELSE scanEntries(current, i + 1, pushed)
             ELSE IF IsObject(value)
                  THEN scanEntries(current, i + 1, Append(pushed, value))
                  ELSE scanEntries(current, i + 1, pushed)

\* a fault: the traversal is depth-first
RECURSIVE searchStack(_)
searchStack(queue) ==
    IF queue = <<>> THEN NoId
    ELSE LET current == Head(queue) IN
         IF ~IsObject(current) THEN searchStack(Tail(queue))
         ELSE LET r == scanEntries(current, 1, <<>>) IN
              IF r.hit THEN r.id ELSE searchStack(r.pushed \o Tail(queue))

\* the while loop over the queue (a parsed JSON value is a tree: no node is
\* met twice, so the visited set never skips one)
RECURSIVE searchQueue(_)
searchQueue(queue) ==
    IF queue = <<>> THEN NoId
    ELSE LET current == Head(queue) IN
         IF ~IsObject(current) THEN searchQueue(Tail(queue))
         ELSE LET r == scanEntries(current, 1, <<>>) IN
              IF r.hit THEN r.id ELSE searchQueue(Tail(queue) \o r.pushed)

extractConversationId(payload) ==
    IF ~IsObject(payload) THEN NoId ELSE searchQueue(<<payload>>)

(***************************************************************************)
(* renderResult and the string conversions it uses.                        *)
(***************************************************************************)
S_toolName == <<"t","o","o","l","N","a","m","e">>
S_status == <<"s","t","a","t","u","s">>
S_output == <<"o","u","t","p","u","t">>
S_unknown == <<"u","n","k","n","o","w","n">>
S_none == <<"n","o","n","e">>
S_na == <<"n","/","a">>

S_true == <<"t","r","u","e">>
S_false == <<"f","a","l","s","e">>
S_null == <<"n","u","l","l">>
S_objectObject == <<"[","o","b","j","e","c","t"," ","O","b","j","e","c","t","]">>

RECURSIVE Join(_, _)
Join(parts, sep) ==
    IF Len(parts) = 0 THEN <<>>
    ELSE IF Len(parts) = 1 THEN parts[1]
    ELSE parts[1] \o sep \o Join(Tail(parts), sep)

Spaces(n) == [i \in 1..n |-> " "]

\* String(v), as a template literal converts v
RECURSIVE TemplateString(_)
TemplateString(v) ==
    CASE v.t = "str" -> v.s
      [] v.t = "bool" -> IF v.b THEN S_true ELSE S_false
      [] v.t = "null" -> S_null
      [] v.t = "obj" -> S_objectObject
      [] v.t = "arr" ->
            Join([i \in 1..Len(v.e) |->
                    IF v.e[i][2].t \in {"null", "undef"} THEN <<>> ELSE TemplateString(v.e[i][2])],
                 <<",">>)
      [] OTHER -> <<"u","n","d","e","f","i","n","e","d">>

\* JSON.stringify(v, null, 2) at the given indentation (strings of the model
\* hold no character that JSON escapes)
RECURSIVE Stringify(_, _)
Stringify(v, indent) ==
    CASE v.t = "str" -> <<"\"">> \o v.s \o <<"\"">>
      [] v.t = "bool" -> IF v.b THEN S_true ELSE S_false
      [] v.t = "obj" ->
            IF Len(v.e) = 0 THEN <<"{", "}">>
            ELSE <<"{", "\n">>
                 \o Join([i \in 1..Len(v.e) |->
                            Spaces(indent + 2) \o <<"\"">> \o v.e[i][1] \o <<"\"", ":", " ">>
                            \o Stringify(v.e[i][2], indent + 2)],
                         <<",", "\n">>)
                 \o <<"\n">> \o Spaces(indent) \o <<"}">>
      [] v.t = "arr" ->
            IF Len(v.e) = 0 THEN <<"[", "]">>
            ELSE <<"[", "\n">>
                 \o Join([i \in 1..Len(v.e) |->
                            Spaces(indent + 2) \o Stringify(v.e[i][2], indent + 2)],
                         <<",", "\n">>)
                 \o <<"\n">> \o Spaces(indent) \o <<"]">>
      [] OTHER -> S_null

\* the line pushed for one item of result.content
renderItem(item) ==
    IF Get(item, S_type) = JStr(S_text) /\ Get(item, S_text).t = "str"
    THEN Trim(Get(item, S_text).s)
    ELSE IF Get(item, S_type) = JStr(S_tool)
    THEN LET name == IF Truthy(Get(item, S_toolName))
                     THEN TemplateString(Get(item, S_toolName)) ELSE S_unknown
             parts == <<(<<"T","o","o","l"," ">> \o name)>>
                      \o (IF Truthy(Get(item, S_status))
                          THEN <<(<<"s","t","a","t","u","s","=">> \o TemplateString(Get(item, S_status)))>>
                          ELSE <<>>)
                      \o (IF Truthy(Get(item, S_output))
                          THEN <<(<<"o","u","t","p","u","t",":","\n">> \o TemplateString(Get(item, S_output)))>>
                          ELSE <<>>)
         IN  Trim(Join(parts, <<" ">>))
    ELSE Stringify(item, 0)

\* a fault: the joined lines are returned as they are
renderResultUntrimmed(result) ==
    IF ~Truthy(result) THEN <<>>
    ELSE LET content == Get(result, S_content)
             items == IF content.t = "arr"
                      THEN SelectSeq([i \in 1..Len(content.e) |-> content.e[i][2]], Truthy)
                      ELSE <<>>
         IN  Join([i \in 1..Len(items) |-> renderItem(items[i])], <<"\n", "\n">>)

renderResult(result) ==
    IF ~Truthy(result) THEN <<>>
    ELSE LET content == Get(result, S_content)
             items == IF content.t = "arr"
                      THEN SelectSeq([i \in 1..Len(content.e) |-> content.e[i][2]], Truthy)
                      ELSE <<>>
         IN  Trim(Join([i \in 1..Len(items) |-> renderItem(items[i])], <<"\n", "\n">>))

(***************************************************************************)
(* Messages of the errors the bridge raises, and the RPC method names.     *)
(***************************************************************************)
M_timeoutPrefix ==
    <<"C","o","d","e","x"," ","R","P","C"," ","t","i","m","e","o","u","t">>
M_notReady ==
    <<"C","o","d","e","x"," ","p","r","o","c","e","s","s"," ","i","s"," ","n","o","t"," ",
      "r","e","a","d","y"," ","t","o"," ","r","e","c","e","i","v","e"," ","i","n","p","u",
      "t",".">>
M_returnedError ==
    <<"C","o","d","e","x"," ","r","e","t","u","r","n","e","d"," ","a","n"," ","e","r","r",
      "o","r",".">>
M_internalError ==
    <<"C","o","d","e","x"," ","r","e","p","o","r","t","e","d"," ","a","n"," ","i","n","t",
      "e","r","n","a","l"," ","e","r","r","o","r",".">>
M_noContent ==
    <<"(","C","o","d","e","x"," ","r","e","t","u","r","n","e","d"," ","n","o"," ","c","o",
      "n","t","e","n","t",".",")">>
S_initialize ==
    <<"i","n","i","t","i","a","l","i","z","e">>
S_initialized == <<"i","n","i","t","i","a","l","i","z","e","d">>
S_toolsList ==
    <<"t","o","o","l","s","/","l","i","s","t">>
S_toolsCall ==
    <<"t","o","o","l","s","/","c","a","l","l">>
S_message ==
    <<"m","e","s","s","a","g","e">>
\* new Error(`Codex RPC timeout (${method})`)
RpcTimeoutMessage(method) == M_timeoutPrefix \o <<" ", "(">> \o method \o <<")">>

\* config.rpcTimeoutMs as loadConfigFromEnv sets it when the variable is unset
DefaultRpcTimeoutMs == 900000

\* config.chatId, and the id of some other chat
ConfigChatId == "123456"
OtherChatId == "777"
ChatIds == {ConfigChatId, OtherChatId}

(***************************************************************************)
(* The state.                                                              *)
(***************************************************************************)
VARIABLES
    \* fields of TelegramCodexBridge
    codexProcess,              \* the child process (its number), 0 for null
    codexReady,
    stdoutRl,                  \* the readline interface (its process's number), 0 for null
    pollLoopPromise,           \* the poll loop (its number), 0 for null
    running,
    stopRequested,
    sessions,                  \* Map chatId -> ChatSession (its index in heap)
    sessionByConversationId,   \* Map conversationId -> ChatSession (its index in heap)
    rpcPending,                \* Map id -> RpcPending
    rpcCounter,
    fatalEmitted,
    rpcTimeoutMs,              \* config.rpcTimeoutMs
    \* objects and suspended tasks
    heap,                      \* the ChatSession objects ever created
    starting,                  \* start() calls suspended before the spawn
    stopWaiting,               \* per poll loop, the suspended stop() calls that await it
    killed,                    \* the processes stop() has signalled
    sending,                   \* prompts whose reply sendText is delivering
    uncaught,                  \* an exception escaped an event handler
    replied,                   \* the responses written to the backend's requests
    nRequests,                 \* backend requests handled
    nDropped,                  \* lines dropped before routing
    \* the environment
    proc,                      \* the processes spawned: alive, broken (stdin closed), failed, exited
    readers,                   \* the readline interfaces still open
    poll,                      \* the poll loops: polling or ended
    nPrompts, nResets, nNotes,
    \* what an observer of the bridge has seen
    written,                   \* per RPC id, the request and the process it was written to (0: the write threw)
    timedOut,                  \* ids whose timeout fired
    settled,                   \* the settlements of the calls' promises, in order
    lateDropped,               \* timed-out ids whose response was dropped as "unknown RPC id"
    calls,                     \* the tools/call requests the dispatcher issued
    outbox,                    \* the texts handed to sendText
    fatals,                    \* per run, the calls of emitFatal and the emissions to the listeners
    stopSeen,                  \* the processes that were running when a stop() was requested
    afterReset,                \* per session: reset while bound, and no prompt dispatched since
    argument,                  \* the argument of a call of one of the module's functions
    returned                   \* what the call returned: empty before it, one value after

vars == <<codexProcess, codexReady, stdoutRl, pollLoopPromise, running, stopRequested,
          sessions, sessionByConversationId, rpcPending, rpcCounter, fatalEmitted,
          rpcTimeoutMs, heap, starting, stopWaiting, killed, sending, uncaught, replied, nRequests, nDropped,
          proc, readers,
          poll, nPrompts, nResets, nNotes, written, timedOut, settled, lateDropped, calls, outbox,
          fatals, stopSeen, afterReset, argument, returned>>

\* The state as one value: the handlers below are functions from state to
\* state, composed the way the code calls them.
Cur ==
    [codexProcess |-> codexProcess, codexReady |-> codexReady, stdoutRl |-> stdoutRl,
     pollLoopPromise |-> pollLoopPromise, running |-> running,
     stopRequested |-> stopRequested, sessions |-> sessions,
     sessionByConversationId |-> sessionByConversationId, rpcPending |-> rpcPending,
     rpcCounter |-> rpcCounter, fatalEmitted |-> fatalEmitted,
     rpcTimeoutMs |-> rpcTimeoutMs, heap |-> heap, starting |-> starting,
     stopWaiting |-> stopWaiting, killed |-> killed, sending |-> sending, uncaught |-> uncaught,
     replied |-> replied, nRequests |-> nRequests, nDropped |-> nDropped,
     proc |-> proc, readers |-> readers, poll |-> poll, nPrompts |-> nPrompts,
     nResets |-> nResets, nNotes |-> nNotes, written |-> written, timedOut |-> timedOut,
     settled |-> settled,
     lateDropped |-> lateDropped, calls |-> calls, outbox |-> outbox,
     fatals |-> fatals, stopSeen |-> stopSeen, afterReset |-> afterReset]

Commit(st) ==
    /\ codexProcess' = st.codexProcess
    /\ codexReady' = st.codexReady
    /\ stdoutRl' = st.stdoutRl
    /\ pollLoopPromise' = st.pollLoopPromise
    /\ running' = st.running
    /\ stopRequested' = st.stopRequested
    /\ sessions' = st.sessions
    /\ sessionByConversationId' = st.sessionByConversationId
    /\ rpcPending' = st.rpcPending
    /\ rpcCounter' = st.rpcCounter
    /\ fatalEmitted' = st.fatalEmitted
    /\ rpcTimeoutMs' = st.rpcTimeoutMs
    /\ heap' = st.heap
    /\ starting' = st.starting
    /\ stopWaiting' = st.stopWaiting
    /\ killed' = st.killed
    /\ sending' = st.sending
    /\ uncaught' = st.uncaught
    /\ replied' = st.replied
    /\ nRequests' = st.nRequests
    /\ nDropped' = st.nDropped
    /\ proc' = st.proc
    /\ readers' = st.readers
    /\ poll' = st.poll
    /\ nPrompts' = st.nPrompts
    /\ nResets' = st.nResets
    /\ nNotes' = st.nNotes
    /\ written' = st.written
    /\ timedOut' = st.timedOut
    /\ settled' = st.settled
    /\ lateDropped' = st.lateDropped
    /\ calls' = st.calls
    /\ outbox' = st.outbox
    /\ fatals' = st.fatals
    /\ stopSeen' = st.stopSeen
    /\ afterReset' = st.afterReset

Remove(f, key) == [k \in (DOMAIN f) \ {key} |-> f[k]]

NewSession(chatId) ==
    [chatId |-> chatId, conversationId |-> NoId, lastRolloutPath |-> JNull,
     messageQueue |-> <<>>, processing |-> FALSE,
     warnedMissingConversationId |-> FALSE, missingConversationIdTimeout |-> FALSE,
     lastInteractionAt |-> 0]

\* the state after construction, config.rpcTimeoutMs being ms
InitWith(ms) ==
    /\ codexProcess = 0
    /\ codexReady = FALSE
    /\ stdoutRl = 0
    /\ pollLoopPromise = 0
    /\ running = FALSE
    /\ stopRequested = FALSE
    /\ sessions = <<>>
    /\ sessionByConversationId = <<>>
    /\ rpcPending = <<>>
    /\ rpcCounter = 1
    /\ fatalEmitted = FALSE
    /\ rpcTimeoutMs = ms
    /\ heap = <<>>
    /\ starting = 0
    /\ stopWaiting = <<>>
    /\ killed = {}
    /\ sending = {}
    /\ uncaught = FALSE
    /\ replied = <<>>
    /\ nRequests = 0
    /\ nDropped = 0
    /\ proc = <<>>
    /\ readers = {}
    /\ poll = <<>>
    /\ nPrompts = 0
    /\ nResets = 0
    /\ nNotes = 0
    /\ written = <<>>
    /\ timedOut = {}
    /\ settled = <<>>
    /\ lateDropped = {}
    /\ calls = <<>>
    /\ outbox = <<>>
    /\ fatals = <<>>
    /\ stopSeen = {}
    /\ afterReset = <<>>

\* no function of the module is being called on its own
NoCall == argument = JNull /\ returned = <<>>

Init == InitWith(DefaultRpcTimeoutMs) /\ NoCall

\* CODEX_RPC_TIMEOUT_MS is unset or set to 0, which disables the timeout
InitConfigured == (\E ms \in {0, DefaultRpcTimeoutMs} : InitWith(ms)) /\ NoCall

(***************************************************************************)
(* The fatal signal, the transport's write side, the registry.             *)
(***************************************************************************)
\* a fault: the one-shot guard of emitFatal is missing
emitFatalUnguarded(st) ==
    [st EXCEPT !.fatalEmitted = TRUE,
               !.fatals[Len(st.fatals)].raised = @ + 1,
               !.fatals[Len(st.fatals)].emitted = @ + 1]

emitFatal(st) ==
    IF st.fatalEmitted THEN [st EXCEPT !.fatals[Len(st.fatals)].raised = @ + 1]
    ELSE [st EXCEPT !.fatalEmitted = TRUE,
                    !.fatals[Len(st.fatals)].raised = @ + 1,
                    !.fatals[Len(st.fatals)].emitted = @ + 1]

\* writeCodex does not throw: there is a process and its stdin is writable
(***************************************************************************)
(* What the backend and Telegram send.                                     *)
(***************************************************************************)
C1Id == <<"c","1">>
C2Id == <<"c","2">>
TextItem(s) == JObj(<<(<<S_type, JStr(S_text)>>), (<<S_text, JStr(s)>>)>>)
\* {rolloutPath:"r1", conversationId:"c1", content:[{type:"text", text:"hi"}]}
ResultBound ==
    JObj(<<(<<S_rolloutPath, JStr(<<"r","1">>)>>),
           (<<S_conversationId, JStr(C1Id)>>),
           (<<S_content, JArr(<<TextItem(<<"h","i">>)>>)>>)>>)
\* {content:[{type:"text", text:" ok "}]}
ResultPlain == JObj(<<(<<S_content, JArr(<<TextItem(<<" ","o","k"," ">>)>>)>>)>>)
\* {sessionId:"c2", conversationId:"c1", content:[]}
ResultShadowed ==
    JObj(<<(<<S_sessionId, JStr(C2Id)>>),
           (<<S_conversationId, JStr(C1Id)>>),
           (<<S_content, JArr(<<>>)>>)>>)
\* {conversationId:"c1", isError:true, content:[{type:"text", text:"boom"}]}
ResultIsError ==
    JObj(<<(<<S_conversationId, JStr(C1Id)>>),
           (<<S_isError, JBool(TRUE)>>),
           (<<S_content, JArr(<<TextItem(<<"b","o","o","m">>)>>)>>)>>)
ToolResults == {ResultBound, ResultPlain, ResultShadowed, ResultIsError}

ErrorObject(message) == JObj(<<(<<S_message, JStr(message)>>)>>)
\* an error the backend words like the bridge's own timeout
M_backendTimeout == M_timeoutPrefix \o <<" ","u","p","s","t","r","e","a","m">>
ErrorMessages == {<<"b","o","o","m">>, M_backendTimeout}

\* {msg:{sessionId:"c2"}} and {msg:{text:"working"}}
NoteParams ==
    {JObj(<<(<<S_msg, JObj(<<(<<S_sessionId, JStr(C2Id)>>)>>)>>)>>),
     JObj(<<(<<S_msg, JObj(<<(<<S_text, JStr(<<"w","o","r","k">>)>>)>>)>>)>>)}
S_codexEvent == <<"c","o","d","e","x","/","e","v","e","n","t">>

\* the payloads of this environment, their ids extracted once
\* {msg:{sessionId:"c1"}}: a notification that names the other conversation
NoteC1 == JObj(<<(<<S_msg, JObj(<<(<<S_sessionId, JStr(C1Id)>>)>>)>>)>>)
KnownPayloads == ToolResults \cup NoteParams \cup {NoteC1}
ExtractedIds == [payload \in KnownPayloads |-> extractConversationId(payload)]
conversationIdIn(payload) ==
    IF payload \in KnownPayloads THEN ExtractedIds[payload]
    ELSE extractConversationId(payload)

writeCodexOk(st) ==
    st.codexProcess # 0 /\ st.proc[st.codexProcess] = "alive"

\* the params of initialize and tools/list, which carry nothing the dispatcher reads
NoParams == [name |-> "", conversationId |-> NoId, prompt |-> 0]

\* a fault: the pending entry and its timer are set before the write is tried
sendRpcRegistersFirst(st, method, params, then) ==
    LET id == st.rpcCounter
        st1 == [st EXCEPT !.rpcCounter = @ + 1,
                          !.rpcPending = @ @@ (id :> [method |-> method,
                                                      timeout |-> st.rpcTimeoutMs > 0,
                                                      proc |-> then.proc,
                                                      session |-> then.session,
                                                      prompt |-> then.prompt])]
    IN  [st |-> [st1 EXCEPT !.written = Append(@,
                     [proc |-> IF writeCodexOk(st1) THEN st1.codexProcess ELSE 0,
                      method |-> method, params |-> params])],
         threw |-> ~writeCodexOk(st1), id |-> id]

\* a fault: the id is read from the counter and the counter is left as it is
sendRpcReusesId(st, method, params, then) ==
    LET id == st.rpcCounter
    IN  IF ~writeCodexOk(st)
        THEN [st |-> [st EXCEPT !.written = Append(@, [proc |-> 0, method |-> method,
                                                        params |-> params])],
              threw |-> TRUE, id |-> id]
        ELSE [st |-> [st EXCEPT
                        !.written = Append(@, [proc |-> st.codexProcess, method |-> method,
                                               params |-> params]),
                        !.rpcPending = (id :> [method |-> method,
                                               timeout |-> st.rpcTimeoutMs > 0,
                                               proc |-> then.proc,
                                               session |-> then.session,
                                               prompt |-> then.prompt]) @@ @],
              threw |-> FALSE, id |-> id]

\* sendRpc(method, params), its promise continued by `then`: the state, the
\* id it took and whether writeCodex threw
sendRpc(st, method, params, then) ==
    LET id == st.rpcCounter
        st1 == [st EXCEPT !.rpcCounter = @ + 1]
    IN  IF ~writeCodexOk(st1)
        THEN [st |-> [st1 EXCEPT !.written = Append(@, [proc |-> 0, method |-> method,
                                                         params |-> params])],
              threw |-> TRUE, id |-> id]
        ELSE [st |-> [st1 EXCEPT
                        !.written = Append(@, [proc |-> st1.codexProcess, method |-> method,
                                               params |-> params]),
                        !.rpcPending = @ @@ (id :> [method |-> method,
                                                    timeout |-> st1.rpcTimeoutMs > 0,
                                                    proc |-> then.proc,
                                                    session |-> then.session,
                                                    prompt |-> then.prompt])],
              threw |-> FALSE, id |-> id]

\* sendNotification(method, params): nothing of the state changes
sendNotification(st, method) ==
    [st |-> st, threw |-> ~writeCodexOk(st)]

clearSessionTimeout(st, s) ==
    [st EXCEPT !.heap[s].missingConversationIdTimeout = FALSE]

setConversationId(st, s, conversationId) ==
    LET old == st.heap[s].conversationId
        deleted == IF old # NoId
                   THEN Remove(st.sessionByConversationId, old)
                   ELSE st.sessionByConversationId
        st1 == [st EXCEPT !.sessionByConversationId = deleted,
                          !.heap[s].conversationId = conversationId]
    IN  IF conversationId # NoId
        THEN clearSessionTimeout(
                 [st1 EXCEPT !.sessionByConversationId = (conversationId :> s) @@ deleted,
                             !.heap[s].warnedMissingConversationId = FALSE], s)
        ELSE st1

getSession(st, chatId) ==
    IF chatId \in DOMAIN st.sessions THEN st
    ELSE [st EXCEPT !.heap = Append(@, NewSession(chatId)),
                    !.afterReset = Append(@, FALSE),
                    !.sessions = (chatId :> (Len(st.heap) + 1)) @@ @]

\* a fault: the queue and the flags are cleared, the binding is kept
resetSessionKeepsBinding(st, s) ==
    LET st1 == [st EXCEPT !.heap[s].messageQueue = <<>>,
                          !.heap[s].processing = FALSE,
                          !.heap[s].lastRolloutPath = JNull,
                          !.heap[s].warnedMissingConversationId = FALSE]
    IN  [clearSessionTimeout(st1, s) EXCEPT !.heap[s].lastInteractionAt = 0]

resetSession(st, s) ==
    LET st1 == [st EXCEPT !.heap[s].messageQueue = <<>>,
                          !.heap[s].processing = FALSE,
                          !.heap[s].lastRolloutPath = JNull,
                          !.heap[s].warnedMissingConversationId = FALSE]
        st2 == clearSessionTimeout(setConversationId(st1, s, NoId), s)
    IN  [st2 EXCEPT !.heap[s].lastInteractionAt = 0]

\* the sessions of the registry
Registered(st) == {st.sessions[c] : c \in DOMAIN st.sessions}

resetAllSessions(st) ==
    [st EXCEPT !.heap = [s \in DOMAIN st.heap |->
                            IF s \in Registered(st)
                            THEN [st.heap[s] EXCEPT !.missingConversationIdTimeout = FALSE]
                            ELSE st.heap[s]],
               !.sessions = <<>>,
               !.sessionByConversationId = <<>>]

\* a fault: the timer is armed again for a session already warned
scheduleMissingConversationWarningAgain(st, s) ==
    IF st.heap[s].missingConversationIdTimeout
    THEN st
    ELSE [st EXCEPT !.heap[s].missingConversationIdTimeout = TRUE]

scheduleMissingConversationWarning(st, s) ==
    IF st.heap[s].warnedMissingConversationId \/ st.heap[s].missingConversationIdTimeout
    THEN st
    ELSE [st EXCEPT !.heap[s].missingConversationIdTimeout = TRUE]

\* a fault: the most recent session is taken whether it is bound or not
findMostRecentSessionAny(st) ==
    IF Registered(st) = {} THEN 0
    ELSE CHOOSE c \in Registered(st) : \A d \in Registered(st) :
             \/ st.heap[d].lastInteractionAt < st.heap[c].lastInteractionAt
             \/ st.heap[d].lastInteractionAt = st.heap[c].lastInteractionAt /\ c <= d

\* the loop over sessions.values(), in insertion order (the order of creation)
findMostRecentSessionWithoutConversationId(st) ==
    LET unbound == {s \in Registered(st) : st.heap[s].conversationId = NoId}
    IN  IF unbound = {} THEN 0
        ELSE CHOOSE c \in unbound : \A d \in unbound :
                 \/ st.heap[d].lastInteractionAt < st.heap[c].lastInteractionAt
                 \/ st.heap[d].lastInteractionAt = st.heap[c].lastInteractionAt /\ c <= d

maybeUpdateConversationIdForSession(st, s, payload) ==
    LET conversationId == conversationIdIn(payload)
    IN  IF conversationId = NoId THEN [st |-> st, updated |-> FALSE]
        ELSE [st |-> setConversationId(st, s, conversationId), updated |-> TRUE]

\* a fault: an id the index does not have goes to the first session of the
\* registry, bound or not
maybeUpdateConversationIdFromPayloadRebinds(st, payload) ==
    LET conversationId == conversationIdIn(payload)
        session == IF conversationId \in DOMAIN st.sessionByConversationId
                   THEN st.sessionByConversationId[conversationId]
                   ELSE IF Registered(st) = {} THEN 0
                   ELSE CHOOSE s \in Registered(st) : \A other \in Registered(st) : s <= other
    IN  IF conversationId = NoId \/ session = 0 THEN st
        ELSE setConversationId(st, session, conversationId)

maybeUpdateConversationIdFromPayload(st, payload) ==
    LET conversationId == conversationIdIn(payload)
        session == IF conversationId \in DOMAIN st.sessionByConversationId
                   THEN st.sessionByConversationId[conversationId]
                   ELSE findMostRecentSessionWithoutConversationId(st)
    IN  IF conversationId = NoId \/ session = 0 THEN st
        ELSE setConversationId(st, session, conversationId)

(***************************************************************************)
(* The prompt dispatcher.                                                  *)
(***************************************************************************)
\* the promise continuation of a tools/call
PromptThen(s, next) == [proc |-> 0, session |-> s, prompt |-> next]
\* the promise continuation of a handshake call of process p's initCodex
InitThen(p) == [proc |-> p, session |-> 0, prompt |-> 0]

\* handlePrompt up to its await: the tools/call it issues
\* a fault: every prompt opens a new conversation, bound or not
handlePromptCallAlwaysNew(st, s, prompt) ==
    LET st1 == [st EXCEPT !.heap[s].lastInteractionAt = Len(st.calls) + 1]
        params == [name |-> "codex", conversationId |-> NoId, prompt |-> prompt]
        r == sendRpc(st1, S_toolsCall, params, PromptThen(s, prompt))
        call == [id |-> r.id, session |-> s, prompt |-> prompt,
                 bound |-> st.heap[s].conversationId, sent |-> ~r.threw,
                 afterReset |-> st.afterReset[s]]
    IN  [st |-> [r.st EXCEPT !.calls = Append(@, call), !.afterReset[s] = FALSE],
         threw |-> r.threw]

handlePromptCall(st, s, prompt) ==
    LET st1 == [st EXCEPT !.heap[s].lastInteractionAt = Len(st.calls) + 1]
        params == IF st1.heap[s].conversationId = NoId
                  THEN [name |-> "codex", conversationId |-> NoId, prompt |-> prompt]
                  ELSE [name |-> "codex-reply",
                        conversationId |-> st1.heap[s].conversationId, prompt |-> prompt]
        r == sendRpc(st1, S_toolsCall, params, PromptThen(s, prompt))
        call == [id |-> r.id, session |-> s, prompt |-> prompt,
                 bound |-> st.heap[s].conversationId, sent |-> ~r.threw,
                 afterReset |-> st.afterReset[s]]
    IN  [st |-> [r.st EXCEPT !.calls = Append(@, call), !.afterReset[s] = FALSE],
         threw |-> r.threw]

\* a fault: the .catch treats a timeout like any other failure
promptCatchAlwaysClears(st, s, prompt, message) ==
    setConversationId(
        [st EXCEPT !.outbox = Append(@, [session |-> s, prompt |-> prompt, kind |-> "error"])],
        s, NoId)

\* the .catch of processQueue
promptCatch(st, s, prompt, message) ==
    IF StartsWith(message, M_timeoutPrefix)
    THEN [st EXCEPT !.outbox = Append(@, [session |-> s, prompt |-> prompt, kind |-> "timeout"])]
    ELSE setConversationId(
             [st EXCEPT !.outbox = Append(@, [session |-> s, prompt |-> prompt, kind |-> "error"])],
             s, NoId)

RECURSIVE processQueue(_, _)

\* the .finally of processQueue
promptFinally(st, s) ==
    processQueue([st EXCEPT !.heap[s].processing = FALSE], s)

processQueue(st, s) ==
    IF st.heap[s].processing \/ ~st.codexReady THEN st
    ELSE IF Len(st.heap[s].messageQueue) = 0 THEN st
    ELSE LET next == Head(st.heap[s].messageQueue)
             st1 == [st EXCEPT !.heap[s].messageQueue = Tail(@),
                               !.heap[s].processing = TRUE]
             r == handlePromptCall(st1, s, next)
         IN  IF r.threw
             THEN promptFinally(promptCatch(r.st, s, next, M_notReady), s)
             ELSE r.st

RECURSIVE processEach(_, _)
processEach(st, left) ==
    IF left = {} THEN st
    ELSE LET s == CHOOSE x \in left : \A y \in left : x <= y
         IN  processEach(processQueue(st, s), left \ {s})

processAllQueues(st) == processEach(st, Registered(st))

\* the end of handlePrompt: the text it returns, or the message of the
\* error it throws when the result is flagged isError
replyText(result) ==
    LET formatted == renderResult(result)
    IN  IF Truthy(Get(result, S_isError))
        THEN [failed |-> TRUE,
              text |-> IF Len(formatted) > 0 THEN formatted ELSE M_internalError]
        ELSE [failed |-> FALSE,
              text |-> IF Len(formatted) > 0 THEN formatted ELSE M_noContent]

\* handlePrompt after its await, with the result the call resolved with, and
\* the .then / .catch / .finally that follow it
handlePromptResult(st, s, prompt, result) ==
    LET st1 == IF Truthy(Get(result, S_rolloutPath))
               THEN [st EXCEPT !.heap[s].lastRolloutPath = Get(result, S_rolloutPath)]
               ELSE st
        explicit == Get(result, S_conversationId)
        st2 == IF explicit.t = "str" /\ Len(Trim(explicit.s)) > 0
               THEN setConversationId(st1, s, Trim(explicit.s))
               ELSE st1
        fromResult == maybeUpdateConversationIdForSession(st2, s, result)
        st3 == IF ~fromResult.updated /\ fromResult.st.heap[s].conversationId = NoId
               THEN scheduleMissingConversationWarning(fromResult.st, s)
               ELSE fromResult.st
        formatted == renderResult(result)
    IN  IF Truthy(Get(result, S_isError))
        THEN promptFinally(
                 promptCatch(setConversationId(st3, s, NoId), s, prompt,
                             IF Len(formatted) > 0 THEN formatted ELSE M_internalError),
                 s)
        ELSE [st3 EXCEPT !.outbox = Append(@, [session |-> s, prompt |-> prompt, kind |-> "text"]),
                         !.sending = @ \cup {[session |-> s, prompt |-> prompt]}]

(***************************************************************************)
(* Settling a pending call: the continuation of the promise sendRpc        *)
(* returned, by the method of the call.                                    *)
(***************************************************************************)
\* initCodex after `await sendRpc('initialize')`
initCodexInitialized(st, p) ==
    IF sendNotification(st, S_initialized).threw THEN emitFatal(st)
    ELSE LET r == sendRpc(st, S_toolsList, NoParams, InitThen(p))
         IN  IF r.threw THEN emitFatal(r.st) ELSE r.st

\* initCodex after `await sendRpc('tools/list')`
initCodexListed(st) ==
    processAllQueues([st EXCEPT !.codexReady = TRUE])

resolveCall(st, pending, result) ==
    IF pending.method = S_initialize THEN initCodexInitialized(st, pending.proc)
    ELSE IF pending.method = S_toolsList THEN initCodexListed(st)
    ELSE handlePromptResult(st, pending.session, pending.prompt, result)

rejectCall(st, pending, message) ==
    IF pending.method \in {S_initialize, S_toolsList} THEN emitFatal(st)
    ELSE promptFinally(promptCatch(st, pending.session, pending.prompt, message),
                       pending.session)

(***************************************************************************)
(* Inbound lines.  A parsed line is a record: id (0 when the object has no *)
(* id property), method (empty when absent), params, result, error         *)
(* (Undefined when absent).                                                *)
(***************************************************************************)
Message(id, method, params, result, error) ==
    [id |-> id, method |-> method, params |-> params, result |-> result, error |-> error]

MethodNotFound == -32601

\* sendResponse(id, {error}): writeCodex throws when there is nothing to write to
sendResponse(st, id, code) ==
    IF writeCodexOk(st)
    THEN [st |-> [st EXCEPT !.replied = Append(@, [id |-> id, code |-> code,
                                                  proc |-> st.codexProcess])],
          threw |-> FALSE]
    ELSE [st |-> st, threw |-> TRUE]

\* what sendResponse throws leaves the line listener uncaught
handleCodexRequest(st, message) ==
    LET r == sendResponse(st, message.id, MethodNotFound)
    IN  IF r.threw THEN [r.st EXCEPT !.uncaught = TRUE] ELSE r.st

handleCodexNotification(st, message) ==
    maybeUpdateConversationIdFromPayload(st, message.params)

\* a promise of sendRpc settled: by resolve, by reject or by its timer
Settlement(id, cause) == [id |-> id, cause |-> cause]

\* the id "": String(id) is the one key that is falsy
EmptyStringId == -1

\* a fault: a response settles the call and leaves its entry and timer
handleCodexLineKeepsEntry(st, message) ==
    IF message.id # 0
    THEN IF /\ message.id # EmptyStringId
            /\ Len(message.method) > 0
            /\ message.id \notin DOMAIN st.rpcPending
         THEN handleCodexRequest(st, message)
         ELSE IF message.id = EmptyStringId
         THEN st
         ELSE IF message.id \notin DOMAIN st.rpcPending
         THEN [st EXCEPT !.lateDropped = @ \cup ({message.id} \cap st.timedOut)]
         ELSE LET pending == st.rpcPending[message.id]
                  st1 == [st EXCEPT
                            !.settled = Append(@, Settlement(message.id,
                                IF Truthy(message.error) THEN "rejected" ELSE "resolved"))]
                  text == Get(message.error, S_message)
              IN  IF Truthy(message.error)
                  THEN rejectCall(st1, pending,
                                  IF Truthy(text) THEN text.s ELSE M_returnedError)
                  ELSE resolveCall(st1, pending, message.result)
    ELSE IF Len(message.method) > 0
    THEN handleCodexNotification(st, message)
    ELSE st

handleCodexLine(st, message) ==
    IF message.id # 0
    THEN IF /\ message.id # EmptyStringId
            /\ Len(message.method) > 0
            /\ message.id \notin DOMAIN st.rpcPending
         THEN handleCodexRequest(st, message)
         ELSE IF message.id = EmptyStringId
         THEN st
         ELSE IF message.id \notin DOMAIN st.rpcPending
         THEN [st EXCEPT !.lateDropped = @ \cup ({message.id} \cap st.timedOut)]
         ELSE LET pending == st.rpcPending[message.id]
                  st1 == [st EXCEPT
                            !.rpcPending = Remove(@, message.id),
                            !.settled = Append(@, Settlement(message.id,
                                IF Truthy(message.error) THEN "rejected" ELSE "resolved"))]
                  text == Get(message.error, S_message)
              IN  IF Truthy(message.error)
                  THEN rejectCall(st1, pending,
                                  IF Truthy(text) THEN text.s ELSE M_returnedError)
                  ELSE resolveCall(st1, pending, message.result)
    ELSE IF Len(message.method) > 0
    THEN handleCodexNotification(st, message)
    ELSE st

\* JSON.parse of the texts the backend is taken to send beside its
\* well-formed messages: {"id":d} with one digit d is an object with that
\* id and nothing else, null is the value null (message id -2 stands for it),
\* every other text here is a SyntaxError
NullMessage == -2
L_null == <<"n", "u", "l", "l">>
DigitValue == ("1" :> 1) @@ ("2" :> 2) @@ ("3" :> 3)
JSONparse(text) ==
    IF /\ Len(text) = 8
       /\ SubSeq(text, 1, 6) = <<"{", "\"", "i", "d", "\"", ":">>
       /\ text[7] \in DOMAIN DigitValue
       /\ text[8] = "}"
    THEN [ok |-> TRUE,
          message |-> Message(DigitValue[text[7]], <<>>, Undefined, Undefined, Undefined)]
    ELSE IF text = L_null
    THEN [ok |-> TRUE,
          message |-> Message(NullMessage, <<>>, Undefined, Undefined, Undefined)]
    ELSE [ok |-> FALSE,
          message |-> Message(0, <<>>, Undefined, Undefined, Undefined)]

\* a fault: a line that does not parse is fatal
handleCodexTextFatal(st, line) ==
    LET trimmed == Trim(line)
    IN  IF trimmed = <<>> THEN [st EXCEPT !.nDropped = @ + 1]
        ELSE IF ~JSONparse(trimmed).ok THEN emitFatal([st EXCEPT !.nDropped = @ + 1])
        ELSE handleCodexLine(st, JSONparse(trimmed).message)

\* handleCodexLine from the text of the line: trim, skip when empty, parse,
\* skip when the parse throws, route
\* Object.prototype.hasOwnProperty.call(null, 'id') throws a TypeError, which
\* nothing catches
handleCodexText(st, line) ==
    LET trimmed == Trim(line)
    IN  IF trimmed = <<>> THEN [st EXCEPT !.nDropped = @ + 1]
        ELSE IF ~JSONparse(trimmed).ok THEN [st EXCEPT !.nDropped = @ + 1]
        ELSE IF JSONparse(trimmed).message.id = NullMessage
             THEN [st EXCEPT !.nDropped = @ + 1, !.uncaught = TRUE]
        ELSE handleCodexLine(st, JSONparse(trimmed).message)

\* the callback of a call's timeout timer
\* a fault: the timer rejects the call and leaves its entry in rpcPending
rpcTimeoutKeepsEntry(st, id) ==
    rejectCall([st EXCEPT !.timedOut = @ \cup {id},
                          !.settled = Append(@, Settlement(id, "timeout"))],
               st.rpcPending[id], RpcTimeoutMessage(st.rpcPending[id].method))

rpcTimeoutFired(st, id) ==
    LET pending == st.rpcPending[id]
    IN  rejectCall([st EXCEPT !.rpcPending = Remove(@, id), !.timedOut = @ \cup {id},
                              !.settled = Append(@, Settlement(id, "timeout"))],
                   pending, RpcTimeoutMessage(pending.method))

(***************************************************************************)
(* The supervisor: start(), stop(), the process's events, the poll loop.   *)
(***************************************************************************)
\* start() up to its first await
startBegin(st) ==
    IF st.running THEN st
    ELSE [st EXCEPT !.stopRequested = FALSE, !.fatalEmitted = FALSE,
                    !.fatals = Append(@, [raised |-> 0, emitted |-> 0]),
                    !.starting = @ + 1]

\* start() from the spawn to `await this.initPromise`: initCodex sends
\* initialize, pollUpdates tests stopRequested before its first request
startSpawn(st) ==
    LET p == Len(st.proc) + 1
        st1 == [st EXCEPT !.starting = @ - 1,
                          !.proc = Append(@, "alive"),
                          !.readers = @ \cup {p},
                          !.codexProcess = p,
                          !.stdoutRl = p,
                          !.running = TRUE]
        init == sendRpc(st1, S_initialize, NoParams, InitThen(p))
    IN  [init.st EXCEPT !.pollLoopPromise = p,
                        !.stopWaiting = Append(@, 0),
                        !.poll = Append(@, IF st.stopRequested THEN "ended" ELSE "polling")]

\* stop() after `await this.pollLoopPromise`
\* a fault: the tail of stop() forgets the ready flag
stopFinishKeepsReady(st) ==
    [resetAllSessions([st EXCEPT !.pollLoopPromise = 0]) EXCEPT !.running = FALSE]

stopFinish(st) ==
    [resetAllSessions([st EXCEPT !.pollLoopPromise = 0, !.codexReady = FALSE])
        EXCEPT !.running = FALSE]

\* stop() up to its await, and beyond it when the poll loop has already ended
stop(st) ==
    IF ~st.running THEN st
    ELSE LET st1 == [st EXCEPT !.stopRequested = TRUE,
                               !.stopSeen = @ \cup {p \in DOMAIN st.proc :
                                                       st.proc[p] \in {"alive", "broken"}},
                               !.readers = @ \ {st.stdoutRl},
                               !.stdoutRl = 0,
                               !.killed = @ \cup ({st.codexProcess} \ {0}),
                               !.codexProcess = 0]
         IN  IF st1.pollLoopPromise = 0 THEN stopFinish([st1 EXCEPT !.pollLoopPromise = 0])
             ELSE IF st1.poll[st1.pollLoopPromise] = "polling"
             THEN [st1 EXCEPT !.stopWaiting[st1.pollLoopPromise] = @ + 1]
             ELSE stopFinish(st1)

\* the process's 'exit' listener
onExit(st, p) ==
    LET st1 == [st EXCEPT !.proc[p] = "exited"]
    IN  stop(IF ~st1.stopRequested THEN emitFatal(st1) ELSE st1)

\* the process's 'error' listener
onError(st, p) ==
    emitFatal([st EXCEPT !.proc[p] = "failed"])

\* pollUpdates leaves its loop; the stop() calls awaiting it resume
pollEnd(st, k) ==
    LET st1 == [st EXCEPT !.poll[k] = "ended"]
    IN  IF st1.stopWaiting[k] > 0
        THEN stopFinish([st1 EXCEPT !.stopWaiting[k] = 0])
        ELSE st1

\* a fault: the report looks the session up through getSession
getStatusReportCreating(st, chatId) ==
    LET st1 == getSession(st, chatId)
        session == st1.heap[st1.sessions[chatId]]
    IN  [st |-> st1,
         report |-> [ready |-> st1.codexReady,
                     queueLength |-> Len(session.messageQueue),
                     conversation |-> IF session.conversationId = NoId THEN S_none
                                      ELSE session.conversationId,
                     rollout |-> IF session.lastRolloutPath = JNull THEN S_na
                                 ELSE TemplateString(session.lastRolloutPath)]]

\* getStatusReport({chatId}): the state it leaves and the lines of the report
\* that come from the bridge's state
getStatusReport(st, chatId) ==
    IF chatId \in DOMAIN st.sessions
    THEN LET session == st.heap[st.sessions[chatId]]
         IN  [st |-> st,
              report |-> [ready |-> st.codexReady,
                          queueLength |-> Len(session.messageQueue),
                          conversation |-> IF session.conversationId = NoId THEN S_none
                                           ELSE session.conversationId,
                          rollout |-> IF session.lastRolloutPath = JNull THEN S_na
                                      ELSE TemplateString(session.lastRolloutPath)]]
    ELSE [st |-> st,
          report |-> [ready |-> st.codexReady, queueLength |-> 0,
                      conversation |-> S_none, rollout |-> S_na]]

\* a fault: the update is handled whatever chat it comes from
handleUpdateAnyChat(st, chatId, command, prompt) ==
    LET st1 == getSession(st, chatId)
        session == st1.sessions[chatId]
    IN  IF command = "/reset" THEN resetSession(st1, session)
        ELSE processQueue([st1 EXCEPT !.heap[session].messageQueue = Append(@, prompt)],
                          session)

handleUpdate(st, chatId, command, prompt) ==
    IF chatId # ConfigChatId THEN st
    ELSE LET st1 == getSession(st, chatId)
             session == st1.sessions[chatId]
         IN  IF command = "/reset" THEN resetSession(st1, session)
             ELSE processQueue([st1 EXCEPT !.heap[session].messageQueue = Append(@, prompt)],
                               session)

\* the callback of the missing-conversation-id warning timer
missingConversationWarningFired(st, s) ==
    LET st1 == [st EXCEPT !.heap[s].missingConversationIdTimeout = FALSE]
    IN  IF st1.heap[s].conversationId # NoId THEN st1
        ELSE [st1 EXCEPT !.outbox = Append(@, [session |-> s, prompt |-> 0, kind |-> "warning"]),
                         !.heap[s].warnedMissingConversationId = TRUE]

\* sendText of a prompt's reply has completed (.then), or failed with a
\* network error on its way to Telegram (.catch); then .finally
M_sendFailed == <<"s","o","c","k","e","t"," ","h","a","n","g"," ","u","p">>
replySent(st, x, ok) ==
    LET st1 == [st EXCEPT !.sending = @ \ {x}]
    IN  IF ok THEN promptFinally(st1, x.session)
        ELSE promptFinally(promptCatch(st1, x.session, x.prompt, M_sendFailed), x.session)

\* the payloads a backend answers a request with
Answers(method) ==
    {Message(0, <<>>, Undefined, r, Undefined) :
        r \in IF method = S_toolsCall THEN ToolResults ELSE {JObj(<<>>)}}
    \cup {Message(0, <<>>, Undefined, Undefined, ErrorObject(m)) : m \in ErrorMessages}

(***************************************************************************)
(* The actions: one per event of the event loop.                           *)
(***************************************************************************)
Do(st) == st.rpcCounter <= MaxRpc + 1 /\ Commit(st) /\ UNCHANGED <<argument, returned>>

StartBegin(max) ==
    /\ ~uncaught
    /\ ~running
    /\ starting + Len(proc) < max
    /\ Do(startBegin(Cur))

StartSpawn ==
    /\ ~uncaught
    /\ starting > 0
    /\ Do(startSpawn(Cur))

Stop ==
    /\ ~uncaught
    /\ running
    /\ \A k \in DOMAIN stopWaiting : stopWaiting[k] < MaxStops
    /\ Do(stop(Cur))

PollEnd ==
    \E k \in DOMAIN poll :
        /\ ~uncaught
        /\ poll[k] = "polling"
        /\ stopRequested
        /\ Do(pollEnd(Cur, k))

Exit ==
    \E p \in DOMAIN proc :
        /\ ~uncaught
        /\ proc[p] \in {"alive", "broken"}
        /\ Do(onExit(Cur, p))

ProcError ==
    \E p \in DOMAIN proc :
        /\ ~uncaught
        /\ proc[p] = "alive"
        /\ Do(onError(Cur, p))

StdinClose ==
    \E p \in DOMAIN proc :
        /\ ~uncaught
        /\ proc[p] = "alive"
        /\ Do([Cur EXCEPT !.proc[p] = "broken"])

\* a prompt message arrives in a poll loop's batch
Prompt ==
    \E k \in DOMAIN poll, chatId \in ChatIds :
        /\ ~uncaught
        /\ poll[k] = "polling"
        /\ nPrompts < MaxPrompts
        /\ Do(handleUpdate([Cur EXCEPT !.nPrompts = IF chatId = ConfigChatId THEN @ + 1 ELSE @],
                            chatId, "prompt", nPrompts + 1))

\* a /reset command arrives in a poll loop's batch
Reset ==
    \E k \in DOMAIN poll, chatId \in ChatIds :
        /\ ~uncaught
        /\ poll[k] = "polling"
        /\ nResets < MaxResets
        /\ LET st == handleUpdate([Cur EXCEPT !.nResets = IF chatId = ConfigChatId THEN @ + 1 ELSE @],
                                   chatId, "/reset", 0)
               wasBound == /\ chatId \in DOMAIN sessions
                           /\ heap[sessions[chatId]].conversationId # NoId
           IN  Do(IF wasBound THEN [st EXCEPT !.afterReset[sessions[chatId]] = TRUE] ELSE st)

\* the backend answers a request it received, however late or often
Response ==
    \E p \in readers, id \in DOMAIN written :
        /\ ~uncaught
        /\ proc[p] # "failed"
        /\ written[id].proc = p
        /\ \E answer \in Answers(written[id].method) :
               Do(handleCodexLine(Cur, [answer EXCEPT !.id = id]))

Notification ==
    \E p \in readers, params \in NoteParams :
        /\ ~uncaught
        /\ proc[p] # "failed"
        /\ nNotes < MaxNotes
        /\ Do(handleCodexLine([Cur EXCEPT !.nNotes = @ + 1],
                              Message(0, S_codexEvent, params, Undefined, Undefined)))

\* the backend sends a request of its own; its ids are its own, and may
\* equal one of the bridge's
S_elicitation == <<"e","l","i","c","i","t">>
RequestIds == (1..rpcCounter) \cup {EmptyStringId}
Request ==
    \E p \in readers, id \in RequestIds :
        /\ ~uncaught
        /\ proc[p] # "failed"
        /\ nRequests < MaxRequests
        /\ Do(handleCodexLine([Cur EXCEPT !.nRequests = @ + 1],
                              Message(id, S_elicitation, JObj(<<>>), Undefined, Undefined)))

\* the backend prints a line that is not one of its messages
BlankLines == {<<>>, <<" ">>, <<"\t", " ", "\r">>}
BrokenLines ==
    {<<"o", "k">>, <<"{">>, <<"{", "\"", "i", "d", "\"", ":", "1">>,
     <<" ", "{", "\"", "i", "d", "\"", ":", "1", "}", "}">>}
IdOnlyLines == {<<"{", "\"", "i", "d", "\"", ":", "1", "}", "\r">>}
RawLine ==
    \E p \in readers, line \in BlankLines \cup BrokenLines \cup IdOnlyLines :
        /\ ~uncaught
        /\ proc[p] # "failed"
        /\ nDropped < MaxDropped
        /\ Do(handleCodexText(Cur, line))

RpcTimeout ==
    \E id \in DOMAIN rpcPending :
        /\ ~uncaught
        /\ rpcPending[id].timeout
        /\ Do(rpcTimeoutFired(Cur, id))

ReplySent ==
    \E x \in sending, ok \in BOOLEAN :
        /\ ~uncaught
        /\ Do(replySent(Cur, x, ok))

WarningTimer ==
    \E s \in DOMAIN heap :
        /\ ~uncaught
        /\ heap[s].missingConversationIdTimeout
        /\ Do(missingConversationWarningFired(Cur, s))

Next ==
    \/ StartBegin(MaxProc)
    \/ StartSpawn
    \/ Stop
    \/ PollEnd
    \/ Exit
    \/ ProcError
    \/ StdinClose
    \/ Prompt
    \/ Reset
    \/ Response
    \/ Notification
    \/ Request
    \/ RawLine
    \/ RpcTimeout
    \/ ReplySent
    \/ WarningTimer

Spec == Init /\ [][Next]_vars

\* the supervisor alone: no prompts, several runs
NextSupervisor ==
    \/ StartBegin(MaxStarts)
    \/ StartSpawn
    \/ Stop
    \/ PollEnd
    \/ Exit
    \/ ProcError
    \/ StdinClose
    \/ Response
    \/ RpcTimeout

\* the prompts' path under either configuration of the timeout
NextConfigured ==
    \/ StartBegin(MaxProc)
    \/ StartSpawn
    \/ Stop
    \/ PollEnd
    \/ Exit
    \/ Prompt
    \/ Reset
    \/ Response
    \/ RpcTimeout
    \/ ReplySent

SpecConfigured == InitConfigured /\ [][NextConfigured]_vars

\* the prompts' path across a stop() and a second start()
NextRestart ==
    \/ StartBegin(MaxStarts)
    \/ StartSpawn
    \/ Stop
    \/ PollEnd
    \/ Prompt
    \/ Response
    \/ RpcTimeout
    \/ ReplySent

SpecRestart == Init /\ [][NextRestart]_vars

SpecSupervisor == Init /\ [][NextSupervisor]_vars

\* getStatusReport is called once, for either chat, at any moment of a run
Status ==
    \E chatId \in ChatIds :
        /\ returned = <<>>
        /\ argument' = JStr(chatId)
        /\ returned' = <<getStatusReport(Cur, chatId).report>>
        /\ Commit(getStatusReport(Cur, chatId).st)

NextStatus ==
    \/ StartBegin(MaxProc)
    \/ StartSpawn
    \/ Prompt
    \/ Reset
    \/ Response
    \/ ReplySent
    \/ Status

SpecStatus == Init /\ [][NextStatus]_vars

\* a run without stop, reset or failure of the process, in which every call
\* written to the backend is settled in the end, by an answer or by its timer
NextDrain ==
    \/ StartBegin(MaxProc)
    \/ StartSpawn
    \/ Prompt
    \/ Response
    \/ RpcTimeout
    \/ ReplySent

Settles(id) ==
    /\ id \in DOMAIN rpcPending
    /\ Response \/ RpcTimeout
    /\ id \notin DOMAIN rpcPending'

EverySettles == \A id \in 1..(MaxRpc + 1) : WF_vars(Settles(id))

SpecDrain == Init /\ [][NextDrain]_vars /\ EverySettles

(***************************************************************************)
(* The dispatcher's properties.                                            *)
(***************************************************************************)
ToolCallsPending(st, s) ==
    {id \in DOMAIN st.rpcPending :
        st.rpcPending[id].method = S_toolsCall /\ st.rpcPending[id].session = s}

CallsOf(s) == {i \in DOMAIN calls : calls[i].session = s}
RepliesOf(s) == {i \in DOMAIN outbox : outbox[i].session = s /\ outbox[i].prompt # 0}
Unsettled(c) ==
    c.id \in DOMAIN rpcPending \/ [session |-> c.session, prompt |-> c.prompt] \in sending



\* C1: in every reachable state a session has at most one prompt in flight
\* (a tools/call issued and not yet settled), a /reset notwithstanding.
C1_OnePromptInFlight ==
    \A s \in DOMAIN heap : Cardinality(ToolCallsPending(Cur, s)) <= 1

\* C2, first part: prompts leave a session's queue in the order they entered it.
C2_FifoDequeue ==
    \A s \in DOMAIN heap : \A i, j \in CallsOf(s) :
        i < j => calls[i].prompt < calls[j].prompt

\* C2: a session's prompts are dispatched in submission order, prompt N+1
\* only once prompt N has settled and its reply has been delivered, and the
\* replies reach sendText in submission order.
C2_InOrder ==
    /\ C2_FifoDequeue
    /\ \A s \in DOMAIN heap : \A i, j \in CallsOf(s) : i < j => ~Unsettled(calls[i])
    /\ \A s \in DOMAIN heap : \A i, j \in RepliesOf(s) :
           i < j => outbox[i].prompt < outbox[j].prompt

\* C3: the first prompt dispatched after a bound session was reset is a
\* `codex` call, never a `codex-reply`.
C3_ResetStartsNewConversation ==
    \A i \in DOMAIN calls :
        calls[i].afterReset => written[calls[i].id].params.name = "codex"

\* what a late or repeated line for an id leaves alone
SameProgramState(st) ==
    /\ st.heap = heap
    /\ st.sessions = sessions
    /\ st.sessionByConversationId = sessionByConversationId
    /\ st.rpcPending = rpcPending
    /\ st.sending = sending
    /\ st.calls = calls
    /\ st.outbox = outbox
    /\ st.codexReady = codexReady
    /\ st.fatalEmitted = fatalEmitted

\* C4: once a request has timed out its pending entry is gone, and a
\* response or error that arrives for its id afterwards settles nothing and
\* changes neither the sessions nor the pending table.
C4_LateResponseDropped ==
    \A id \in timedOut :
        /\ id \notin DOMAIN rpcPending
        /\ \A answer \in Answers(written[id].method) :
               SameProgramState(handleCodexLine(Cur, [answer EXCEPT !.id = id]))

C4_Witness ==
    \E id \in lateDropped : written[id].method = S_toolsCall

\* what the timeout of the tools/call `id` does, the session's binding
\* expected to stay `binding`
TimeoutOutcome(id, binding) ==
    LET s == rpcPending[id].session
        st == rpcTimeoutFired(Cur, id)
        n == Len(outbox) + 1
        c == Len(calls) + 1
        queued == heap[s].messageQueue # <<>> /\ codexReady
    IN  /\ id \notin DOMAIN st.rpcPending
        /\ Len(st.outbox) >= n
        /\ st.outbox[n] = [session |-> s, prompt |-> rpcPending[id].prompt, kind |-> "timeout"]
        /\ IF queued
           THEN /\ Len(st.calls) >= c
                /\ st.calls[c].session = s
                /\ st.calls[c].prompt = Head(heap[s].messageQueue)
                /\ st.calls[c].bound = binding
                /\ st.written[st.calls[c].id].params.conversationId = binding
           ELSE /\ st.calls = calls
                /\ st.heap[s].conversationId = binding
                /\ st.sessionByConversationId = sessionByConversationId

TimerArmed(id) == rpcPending[id].method = S_toolsCall /\ rpcPending[id].timeout

BoundAtDispatch(id) == calls[CHOOSE i \in DOMAIN calls : calls[i].id = id].bound

\* C5, amended: when a prompt's tools/call times out, the session's binding
\* stays as it is when the timer fires, the chat is sent the timeout
\* guidance and not the generic error, and the session goes on with its
\* next queued prompt, a codex-reply with the same id when it is bound.
C5_TimeoutKeepsBinding ==
    \A id \in DOMAIN rpcPending :
        TimerArmed(id) => TimeoutOutcome(id, heap[rpcPending[id].session].conversationId)

\* C5 as stated: after the timeout the session's binding is the one it had
\* when the prompt was dispatched.
C5_BindingAsAtDispatch ==
    \A id \in DOMAIN rpcPending :
        TimerArmed(id) => TimeoutOutcome(id, BoundAtDispatch(id))

\* a bound prompt has timed out and the next prompt replied to the same id
C5_Witness ==
    \E i, j \in DOMAIN calls :
        /\ i < j
        /\ calls[i].session = calls[j].session
        /\ calls[i].id \in timedOut
        /\ calls[i].bound # NoId
        /\ written[calls[j].id].params = [name |-> "codex-reply",
                                          conversationId |-> calls[i].bound,
                                          prompt |-> calls[j].prompt]

Unbound(st, s) ==
    /\ st.heap[s].conversationId = NoId
    /\ \A k \in DOMAIN st.sessionByConversationId : st.sessionByConversationId[k] # s

\* C6, the error-object part: an error response to a prompt's tools/call,
\* whatever its message, leaves the session unbound.
C6_ErrorResponseClears ==
    \A id \in DOMAIN rpcPending : \A m \in ErrorMessages :
        rpcPending[id].method = S_toolsCall =>
            Unbound(handleCodexLine(Cur, Message(id, <<>>, Undefined, Undefined,
                                                 ErrorObject(m))),
                    rpcPending[id].session)

\* C6, the isError part: a result flagged isError leaves the session unbound.
C6_IsErrorClears ==
    \A id \in DOMAIN rpcPending : \A result \in ToolResults :
        (rpcPending[id].method = S_toolsCall /\ Truthy(Get(result, S_isError))) =>
            Unbound(handleCodexLine(Cur, Message(id, <<>>, Undefined, result, Undefined)),
                    rpcPending[id].session)

\* C6, the NotReady part: a prompt whose request cannot be written leaves
\* the session unbound.
C6_NotReadyClears ==
    \A s \in DOMAIN heap :
        (codexReady /\ ~heap[s].processing /\ ~writeCodexOk(Cur)) =>
            LET st == processQueue([Cur EXCEPT !.heap[s].messageQueue =
                                                  Append(@, nPrompts + 1)], s)
            IN  /\ Unbound(st, s)
                /\ st.outbox[Len(st.outbox)] = [session |-> s, prompt |-> nPrompts + 1,
                                                kind |-> "error"]
                /\ st.heap[s].messageQueue = <<>>
                /\ ~st.heap[s].processing

\* C6: every failure of a prompt that is not a timeout - an error response
\* whatever its message, a result flagged isError, a request that cannot be
\* written - leaves the session unbound and absent from the reverse index.
C6_FailureClearsBinding ==
    /\ C6_ErrorResponseClears
    /\ C6_IsErrorClears
    /\ C6_NotReadyClears

\* C7: every dispatched prompt issues exactly one tools/call: `codex` when
\* the session was unbound at dispatch, `codex-reply` with exactly the bound
\* id and the prompt when it was bound.
C7_OneCallPerPrompt ==
    /\ \A i, j \in DOMAIN calls :
           i # j => /\ calls[i].id # calls[j].id
                    /\ <<calls[i].session, calls[i].prompt>>
                           # <<calls[j].session, calls[j].prompt>>
    /\ Cardinality({id \in DOMAIN written : written[id].method = S_toolsCall}) = Len(calls)
    /\ \A i \in DOMAIN calls :
           LET c == calls[i]
               request == written[c.id]
           IN  /\ request.method = S_toolsCall
               /\ request.params.prompt = c.prompt
               /\ request.proc # 0 <=> c.sent
               /\ IF c.bound = NoId
                  THEN request.params.name = "codex"
                       /\ request.params.conversationId = NoId
                  ELSE request.params.name = "codex-reply"
                       /\ request.params.conversationId = c.bound

\* a session has issued a codex call and then, bound, a codex-reply
C7_Witness ==
    \E i, j \in DOMAIN calls :
        /\ i < j
        /\ calls[i].session = calls[j].session
        /\ calls[i].bound = NoId
        /\ calls[j].bound # NoId
        /\ calls[j].sent

\* the non-empty string at a result's top-level conversationId, trimmed
ExplicitConversationId(result) ==
    LET v == Get(result, S_conversationId)
    IN  IF v.t = "str" /\ Trim(v.s) # <<>> THEN Trim(v.s) ELSE NoId

\* C8: a successful result with a non-empty top-level conversationId leaves
\* the session bound to that id, whatever other ids the result carries.
C8_ExplicitIdWins ==
    \A id \in DOMAIN rpcPending : \A result \in ToolResults :
        (/\ rpcPending[id].method = S_toolsCall
         /\ ExplicitConversationId(result) # NoId
         /\ ~Truthy(Get(result, S_isError))) =>
            LET s == rpcPending[id].session
                st == handleCodexLine(Cur, Message(id, <<>>, Undefined, result, Undefined))
            IN  st.heap[s].conversationId = ExplicitConversationId(result)

(***************************************************************************)
(* The supervisor's properties.                                            *)
(***************************************************************************)
\* C9: within one run, from a start() to the next, the fatal signal reaches
\* the listeners at most once, whatever calls emitFatal and however often;
\* the next start() re-arms it.
C9_FatalOncePerRun ==
    /\ \A r \in DOMAIN fatals : fatals[r].emitted <= 1
    /\ \A r \in DOMAIN fatals : fatals[r].raised >= 1 => fatals[r].emitted = 1
    /\ fatalEmitted <=> (fatals # <<>> /\ fatals[Len(fatals)].emitted = 1)

\* two runs have each emitted the signal, the second with two causes
C9_Witness ==
    /\ Len(fatals) = 2
    /\ fatals[1].emitted = 1
    /\ fatals[2].emitted = 1
    /\ fatals[2].raised >= 2

\* C10: a process that exits with no stop requested emits the fatal signal,
\* unless the run has emitted it, and triggers stop(); a process that exits
\* after a stop was requested for it emits none.
C10_ExitFatalUnlessStopped ==
    \A p \in DOMAIN proc :
        proc[p] \in {"alive", "broken"} =>
            LET st == onExit(Cur, p)
            IN  /\ p \in stopSeen => st.fatals = fatals
                /\ (p \notin stopSeen /\ ~stopRequested) =>
                       /\ st.fatalEmitted
                       /\ st.running => st.stopRequested

StopInProgress == \E k \in DOMAIN stopWaiting : stopWaiting[k] > 0

\* C11: stop() changes nothing when the bridge is not running, and a stop()
\* called while an earlier stop() still awaits the poll loop returns at
\* once without repeating any shutdown step.
C11_StopIdempotent ==
    /\ ~running => stop(Cur) = Cur
    /\ (running /\ StopInProgress) => stop(Cur) = Cur

\* what a completed stop() leaves behind
Cleared(st) ==
    /\ ~st.running
    /\ ~st.codexReady
    /\ st.sessions = <<>>
    /\ st.sessionByConversationId = <<>>
    /\ \A s \in DOMAIN st.heap : ~st.heap[s].missingConversationIdTimeout

\* C12: a stop() that begins while the bridge is running closes the line
\* reader and signals the process before it waits for the poll loop, clears
\* nothing while the poll loop runs, and once the loop has ended leaves
\* running=false, ready=false, no session and no reverse-index entry, and
\* no warning timer armed.
C12_StopClearsState ==
    /\ running =>
           LET st == stop(Cur)
           IN  /\ st.stopRequested
               /\ st.stdoutRl = 0
               /\ stdoutRl \notin st.readers
               /\ st.codexProcess = 0
               /\ codexProcess # 0 => codexProcess \in st.killed
               /\ IF st.running
                  THEN /\ st.poll[st.pollLoopPromise] = "polling"
                       /\ st.stopWaiting[st.pollLoopPromise] > 0
                       /\ st.codexReady = codexReady
                       /\ st.sessions = sessions
                       /\ st.sessionByConversationId = sessionByConversationId
                       /\ st.heap = heap
                  ELSE /\ Cleared(st)
                       /\ \A k \in DOMAIN st.stopWaiting : st.stopWaiting[k] = 0
    /\ \A k \in DOMAIN poll :
           (poll[k] = "polling" /\ stopRequested /\ stopWaiting[k] > 0) =>
               Cleared(pollEnd(Cur, k))
    /\ StopInProgress => (running /\ stopRequested)

\* C12, the state a completed stop() leaves: until start() is called again
\* the bridge is not running, not ready, its registry and reverse index are
\* empty and no warning timer is armed.
C12_ClearedAfterStop ==
    (~running /\ stopRequested /\ starting = 0) => Cleared(Cur)

\* a stop() has completed and orphaned a session that was bound
C12_Witness ==
    /\ ~running
    /\ stopRequested
    /\ sessions = <<>>
    /\ \E k \in DOMAIN poll : poll[k] = "ended"
    /\ \E s \in DOMAIN heap : heap[s].conversationId # NoId

\* C13: from the moment stop() is requested no prompt is dispatched (no
\* tools/call is attempted), whatever chat message, timeout or completion
\* is handled while stop() awaits the poll loop; the request of a stop
\* cancels no call in flight.
C13_NoDispatchAfterStop ==
    [][/\ stopRequested => calls' = calls
       /\ (~stopRequested /\ stopRequested') => rpcPending' = rpcPending]_vars

\* C14: start() changes nothing when the bridge is running or another
\* start() is under way, so overlapping calls spawn one process.
C14_StartNoOpWhenStarting ==
    (running \/ starting > 0) => startBegin(Cur) = Cur

(***************************************************************************)
(* C15: a call, a notification or a response attempted while there is no   *)
(* backend process, or while its input is not writable, throws to its      *)
(* caller at once: nothing is written, no pending entry is registered, no  *)
(* timer is armed, and nothing else of the state changes (the call only    *)
(* uses up its id).  The calls that failed so never have a pending entry.  *)
(***************************************************************************)
NotWritten(method, params) == [proc |-> 0, method |-> method, params |-> params]

C15_NotReadySynchronous ==
    /\ ~writeCodexOk(Cur) =>
          /\ \A method \in {S_initialize, S_toolsList, S_toolsCall},
                 c \in DOMAIN sessions, prompt \in 1..MaxPrompts :
                LET r == sendRpc(Cur, method, NoParams, PromptThen(sessions[c], prompt))
                IN  /\ r.threw
                    /\ r.st = [Cur EXCEPT !.rpcCounter = @ + 1,
                                          !.written = Append(@, NotWritten(method, NoParams))]
          /\ LET r == sendRpc(Cur, S_initialize, NoParams, InitThen(1))
             IN  r.threw /\ r.st.rpcPending = rpcPending /\ r.st.heap = heap
          /\ sendNotification(Cur, S_initialized) = [st |-> Cur, threw |-> TRUE]
          /\ \A id \in 1..rpcCounter :
                sendResponse(Cur, id, MethodNotFound) = [st |-> Cur, threw |-> TRUE]
    /\ \A i \in DOMAIN calls :
          ~calls[i].sent => /\ calls[i].id \notin DOMAIN rpcPending
                            /\ written[calls[i].id].proc = 0

\* a prompt's call failed so while another call was pending
C15_Witness ==
    /\ \E i \in DOMAIN calls : ~calls[i].sent
    /\ rpcPending # <<>>
    /\ ~writeCodexOk(Cur)
(***************************************************************************)
(* C16: a line that is empty after trimming, or that does not parse as     *)
(* JSON, is dropped: the pending table, the sessions, the reverse index,   *)
(* the flags and the fatal state stay as they were, and so does everything *)
(* else the following lines are routed by.                                 *)
(***************************************************************************)
C16_BadLineDropped ==
    \A line \in BlankLines \cup BrokenLines :
        handleCodexText(Cur, line) = [Cur EXCEPT !.nDropped = @ + 1]

\* a line was dropped while a prompt's call was pending, and the call is
\* still there
C16_Witness ==
    /\ nDropped > 0
    /\ \E id \in DOMAIN rpcPending : rpcPending[id].method = S_toolsCall
    /\ \E c \in DOMAIN sessions : heap[sessions[c]].processing
(***************************************************************************)
(* C17: a line with a method and an id that is not a key of rpcPending is  *)
(* answered with exactly one error response of code -32601 carrying that   *)
(* id, and no pending call is resolved, rejected or removed; a line whose  *)
(* id is a key of rpcPending is the response of that call, whatever else   *)
(* it carries.  Stated where the backend's input is writable.              *)
(***************************************************************************)
RequestLine(id) == Message(id, S_elicitation, JObj(<<>>), Undefined, Undefined)

Answered(st, id) ==
    [st EXCEPT !.replied = Append(@, [id |-> id, code |-> MethodNotFound,
                                      proc |-> st.codexProcess])]

C17_PendingIdIsResponse ==
    \A id \in DOMAIN rpcPending :
        LET st == handleCodexLine(Cur, RequestLine(id))
        IN  /\ st = handleCodexLine(Cur, [RequestLine(id) EXCEPT !.method = <<>>])
            /\ st.replied = replied
            /\ DOMAIN rpcPending \ DOMAIN st.rpcPending = {id}

C17_NumberedRequestAnswered ==
    writeCodexOk(Cur) =>
        \A id \in (1..rpcCounter) \ DOMAIN rpcPending :
            handleCodexLine(Cur, RequestLine(id)) = Answered(Cur, id)

C17_RequestAnswered ==
    /\ C17_PendingIdIsResponse
    /\ writeCodexOk(Cur) =>
          \A id \in RequestIds \ DOMAIN rpcPending :
              handleCodexLine(Cur, RequestLine(id)) = Answered(Cur, id)
(***************************************************************************)
(* C18: a call settles at most once and by one cause.  A response with an  *)
(* error object rejects it with the error's message (a default when it has *)
(* none), a response without one resolves it with the result, the timer    *)
(* rejects it with the timeout message; each removes the pending entry,    *)
(* and with it the timer, so no id settles twice and a settled id is no    *)
(* longer pending.                                                         *)
(***************************************************************************)
SettledBy(st, id, cause) ==
    [st EXCEPT !.rpcPending = Remove(@, id),
               !.settled = Append(@, Settlement(id, cause))]

C18_SettlesOnce ==
    /\ \A i, j \in DOMAIN settled : settled[i].id = settled[j].id => i = j
    /\ \A i \in DOMAIN settled :
          /\ settled[i].id \notin DOMAIN rpcPending
          /\ written[settled[i].id].proc # 0
          /\ settled[i].cause = "timeout" <=> settled[i].id \in timedOut
    /\ \A id \in DOMAIN rpcPending :
          LET pending == rpcPending[id]
          IN  /\ \A answer \in Answers(pending.method) :
                    LET st == handleCodexLine(Cur, [answer EXCEPT !.id = id])
                        text == Get(answer.error, S_message)
                    IN  /\ id \notin DOMAIN st.rpcPending
                        /\ Len(SelectSeq(st.settled, LAMBDA x : x.id = id)) = 1
                        /\ st = IF Truthy(answer.error)
                                THEN rejectCall(SettledBy(Cur, id, "rejected"), pending,
                                                IF Truthy(text) THEN text.s
                                                ELSE M_returnedError)
                                ELSE resolveCall(SettledBy(Cur, id, "resolved"), pending,
                                                 answer.result)
              /\ pending.timeout =>
                    LET st == rpcTimeoutFired(Cur, id)
                    IN  /\ id \notin DOMAIN st.rpcPending
                        /\ Len(SelectSeq(st.settled, LAMBDA x : x.id = id)) = 1
                        /\ st = rejectCall([SettledBy(Cur, id, "timeout")
                                               EXCEPT !.timedOut = @ \cup {id}],
                                           pending, RpcTimeoutMessage(pending.method))

\* one prompt's call was resolved, another's timed out and the late response
\* to it was dropped
C18_Witness ==
    /\ \E i \in DOMAIN settled :
          settled[i].cause = "resolved" /\ written[settled[i].id].method = S_toolsCall
    /\ \E i \in DOMAIN settled :
          settled[i].cause = "timeout" /\ settled[i].id \in lateDropped
(***************************************************************************)
(* C19: with the timeout configured as 0 no call is rejected by a timeout: *)
(* no timer is armed, a call that was written leaves rpcPending only by a  *)
(* response, and the session of a pending tools/call is processing.        *)
(***************************************************************************)
C19_NoTimeoutWhenDisabled ==
    rpcTimeoutMs = 0 =>
        /\ timedOut = {}
        /\ \A id \in DOMAIN rpcPending : ~rpcPending[id].timeout
        /\ \A id \in DOMAIN written :
              (written[id].proc # 0 /\ id \notin DOMAIN rpcPending) =>
                  \E i \in DOMAIN settled :
                      settled[i].id = id /\ settled[i].cause \in {"resolved", "rejected"}
        /\ \A i \in DOMAIN outbox : outbox[i].kind = "timeout" =>
              \E j \in DOMAIN settled : settled[j].cause = "rejected"

C19_SessionStaysProcessing ==
    rpcTimeoutMs = 0 =>
        \A id \in DOMAIN rpcPending :
            rpcPending[id].method = S_toolsCall => heap[rpcPending[id].session].processing

C19_TimeoutDisabled ==
    C19_NoTimeoutWhenDisabled /\ C19_SessionStaysProcessing
(***************************************************************************)
(* C20: the reverse index and the sessions agree.  Every session of the    *)
(* registry that is bound to a conversation id is the one the index maps   *)
(* that id to, and every entry of the index maps an id to a session bound  *)
(* to that id.                                                             *)
(***************************************************************************)
C20_BoundIsIndexed ==
    \A c \in DOMAIN sessions :
        LET id == heap[sessions[c]].conversationId
        IN  id # NoId => /\ id \in DOMAIN sessionByConversationId
                         /\ sessionByConversationId[id] = sessions[c]

C20_IndexedIsBound ==
    \A id \in DOMAIN sessionByConversationId :
        heap[sessionByConversationId[id]].conversationId = id

C20_IndexAgrees ==
    C20_BoundIsIndexed /\ C20_IndexedIsBound

(***************************************************************************)
(* C21: a notification whose params yield a conversation id rebinds the    *)
(* session the reverse index has for that id; when the index has none it   *)
(* binds the id to the registered session without a conversation id whose  *)
(* last interaction is the most recent (the first created among equals),   *)
(* and changes no session when there is none.  Params that yield no id     *)
(* change nothing.                                                         *)
(***************************************************************************)
NotePayloads == KnownPayloads

NoteLine(params) == Message(0, S_codexEvent, params, Undefined, Undefined)

UnboundSessions == {s \in Registered(Cur) : heap[s].conversationId = NoId}

MostRecentOf(S) ==
    {s \in S : \A d \in S :
        \/ heap[d].lastInteractionAt < heap[s].lastInteractionAt
        \/ heap[d].lastInteractionAt = heap[s].lastInteractionAt /\ s <= d}

C21_NotificationBinding ==
    \A params \in NotePayloads :
        LET id == conversationIdIn(params)
            st == handleCodexLine(Cur, NoteLine(params))
        IN  IF id = NoId THEN st = Cur
            ELSE IF id \in DOMAIN sessionByConversationId
            THEN LET owner == sessionByConversationId[id]
                 IN  /\ st = setConversationId(Cur, owner, id)
                     /\ st.sessionByConversationId[id] = owner
                     /\ \A s \in DOMAIN heap : s # owner => st.heap[s] = heap[s]
            ELSE IF UnboundSessions = {} THEN st = Cur
            ELSE \E s \in MostRecentOf(UnboundSessions) :
                     /\ MostRecentOf(UnboundSessions) = {s}
                     /\ st = setConversationId(Cur, s, id)
                     /\ st.heap[s].conversationId = id
                     /\ st.sessionByConversationId[id] = s
                     /\ \A d \in DOMAIN heap : d # s => st.heap[d] = heap[d]

\* a notification bound a session that had issued no call
C21_Witness ==
    /\ nNotes > 0
    /\ calls = <<>>
    /\ \E c \in DOMAIN sessions :
           /\ heap[sessions[c]].conversationId = C2Id
           /\ sessionByConversationId[C2Id] = sessions[c]

(***************************************************************************)
(* C22: resetSession leaves the session with an empty queue, no            *)
(* conversation id, no rollout path, the warned flag false and no warning  *)
(* timer armed; the reverse index has no entry for the id it was bound to, *)
(* the registry is as it was and so is every other session; resetting      *)
(* again changes nothing.  The /reset command does this to the session of  *)
(* the chat, which it creates when there is none.                          *)
(***************************************************************************)
IsReset(st, s) ==
    /\ st.heap[s].messageQueue = <<>>
    /\ st.heap[s].conversationId = NoId
    /\ st.heap[s].lastRolloutPath = JNull
    /\ ~st.heap[s].warnedMissingConversationId
    /\ ~st.heap[s].missingConversationIdTimeout

C22_ResetIdempotent ==
    /\ \A s \in DOMAIN heap :
          LET st == resetSession(Cur, s)
              old == heap[s].conversationId
          IN  /\ IsReset(st, s)
              /\ old # NoId => old \notin DOMAIN st.sessionByConversationId
              /\ \A id \in DOMAIN st.sessionByConversationId :
                     /\ id \in DOMAIN sessionByConversationId
                     /\ st.sessionByConversationId[id] = sessionByConversationId[id]
                     /\ st.sessionByConversationId[id] # s
              /\ st.sessions = sessions
              /\ \A d \in DOMAIN heap : d # s => st.heap[d] = heap[d]
              /\ resetSession(st, s) = st
    /\ LET st == handleUpdate(Cur, ConfigChatId, "/reset", 0)
       IN  /\ ConfigChatId \in DOMAIN st.sessions
           /\ IsReset(st, st.sessions[ConfigChatId])
           /\ ConfigChatId \in DOMAIN sessions =>
                  st = resetSession(Cur, sessions[ConfigChatId])
           /\ handleUpdate(st, ConfigChatId, "/reset", 0) = st

\* a /reset was handled for a session that was bound, while a call of that
\* session was in flight
C22_Witness ==
    \E c \in DOMAIN sessions :
        /\ afterReset[sessions[c]]
        /\ IsReset(Cur, sessions[c])
        /\ sessionByConversationId = <<>>
        /\ \E id \in DOMAIN rpcPending : rpcPending[id].session = sessions[c]

(***************************************************************************)
(* C23: the missing-id warning is a one-shot of the session.  Scheduling   *)
(* changes nothing when the session is warned or has its timer armed, and  *)
(* arms the timer otherwise; the timer's callback sends the warning and    *)
(* sets the warned flag only when the session has no conversation id, and  *)
(* only disarms otherwise; binding a conversation id disarms the timer and *)
(* clears the warned flag.  So a session with a conversation id is neither *)
(* warned nor about to be.                                                 *)
(***************************************************************************)
Warning(s) == [session |-> s, prompt |-> 0, kind |-> "warning"]

WarningsOf(s) == {i \in DOMAIN outbox : outbox[i] = Warning(s)}

C23_WarningOneShot ==
    \A s \in DOMAIN heap :
        /\ heap[s].conversationId # NoId =>
               /\ ~heap[s].missingConversationIdTimeout
               /\ ~heap[s].warnedMissingConversationId
        /\ scheduleMissingConversationWarning(Cur, s) =
               IF heap[s].warnedMissingConversationId \/ heap[s].missingConversationIdTimeout
               THEN Cur
               ELSE [Cur EXCEPT !.heap[s].missingConversationIdTimeout = TRUE]
        /\ heap[s].missingConversationIdTimeout =>
               /\ heap[s].conversationId = NoId
               /\ missingConversationWarningFired(Cur, s) =
                      [Cur EXCEPT !.heap[s].missingConversationIdTimeout = FALSE,
                                  !.heap[s].warnedMissingConversationId = TRUE,
                                  !.outbox = Append(@, Warning(s))]
        /\ \A id \in {C1Id, C2Id} :
               LET st == setConversationId(Cur, s, id)
               IN  /\ ~st.heap[s].missingConversationIdTimeout
                   /\ ~st.heap[s].warnedMissingConversationId
                   /\ st.outbox = outbox
        /\ \A id \in {C1Id, C2Id} :
               LET st == [Cur EXCEPT !.heap[s].conversationId = id]
               IN  missingConversationWarningFired(st, s) =
                       [st EXCEPT !.heap[s].missingConversationIdTimeout = FALSE]

\* a session was warned once, and a second result without an id armed nothing
C23_Witness ==
    \E s \in DOMAIN heap :
        /\ heap[s].warnedMissingConversationId
        /\ ~heap[s].missingConversationIdTimeout
        /\ Cardinality(WarningsOf(s)) = 1
        /\ Cardinality({i \in DOMAIN outbox :
               outbox[i].session = s /\ outbox[i].kind = "text"}) = 2

(***************************************************************************)
(* extractConversationId on its own: called once on a payload drawn from   *)
(* objects of up to MaxFields string fields, alone, nested in an object or *)
(* an array, and beside or below one another.                              *)
(***************************************************************************)
MaxFields == 2

S_ID == <<"I","D">>
FieldKeys == {S_id, S_ID, S_type, S_conversationId, S_sessionId, S_conversation, S_text}
FieldValues == {C1Id, <<" ">> \o C2Id \o <<" ">>, <<" ">>, <<"S","e","s","s","i","o","n">>}
Fields == {<<k, JStr(v)>> : k \in FieldKeys, v \in FieldValues}

FieldLists ==
    {e \in UNION {[1..n -> Fields] : n \in 0..MaxFields} :
        \A i, j \in DOMAIN e : e[i][1] = e[j][1] => i = j}
Leaves == {JObj(e) : e \in FieldLists}
SmallLeaves == {JObj(e) : e \in {f \in FieldLists : Len(f) <= 1}}

ExtractPayloads ==
    Leaves
    \cup {JObj(<<(<<S_msg, l>>)>>) : l \in Leaves}
    \cup {JArr(<<l>>) : l \in Leaves}
    \cup {JObj(<<(<<S_msg, JObj(<<(<<S_msg, a>>)>>)>>), (<<S_content, b>>)>>) :
              a \in SmallLeaves, b \in SmallLeaves}
    \cup {JObj(<<(<<S_msg, a>>), (<<S_content, b>>)>>) : a \in SmallLeaves, b \in SmallLeaves}
    \cup {JObj(<<(<<S_msg, a>>), f>>) : a \in SmallLeaves, f \in Fields}
    \cup {JStr(C1Id), JNull, JBool(TRUE), Undefined}

InitExtract == InitWith(DefaultRpcTimeoutMs) /\ argument \in ExtractPayloads /\ returned = <<>>

Extract ==
    /\ returned = <<>>
    /\ returned' = <<extractConversationId(argument)>>
    /\ argument' = argument
    /\ Commit(Cur)

SpecExtract == InitExtract /\ [][Extract]_vars

\* the reference: the nodes of a payload in breadth-first order, and their
\* string-valued fields in that order
RECURSIVE BreadthFirst(_)
BreadthFirst(queue) ==
    IF queue = <<>> THEN <<>>
    ELSE LET node == Head(queue)
             values == [i \in 1..Len(node.e) |-> node.e[i][2]]
         IN  <<node>> \o BreadthFirst(Tail(queue) \o SelectSeq(values, IsObject))

NodesOf(p) == IF IsObject(p) THEN BreadthFirst(<<p>>) ELSE <<>>

Shaped(s) == Includes(ToLowerCase(s), S_conversation) \/ Includes(ToLowerCase(s), S_session)

HasShapedKey(node) == \E i \in 1..Len(node.e) : Shaped(node.e[i][1])

HasShapedType(node) ==
    \E i \in 1..Len(node.e) :
        node.e[i][1] = S_type /\ node.e[i][2].t = "str" /\ Shaped(node.e[i][2].s)

KeyMatches(node, i) ==
    LET key == ToLowerCase(node.e[i][1])
    IN  /\ node.e[i][2].t = "str"
        /\ \/ Includes(key, S_id) /\ Shaped(key)
           \/ key = S_id /\ (HasShapedType(node) \/ HasShapedKey(node))

RECURSIVE StringFields(_)
StringFields(nodes) ==
    IF nodes = <<>> THEN <<>>
    ELSE LET node == Head(nodes)
             all == [i \in 1..Len(node.e) |->
                        [value |-> node.e[i][2].s, matches |-> KeyMatches(node, i)]]
         IN  SelectSeq(all, LAMBDA f : f.matches) \o StringFields(Tail(nodes))

MatchesOf(p) == StringFields(NodesOf(p))

\* the first matching field, whatever its value
FirstMatch(p) ==
    IF MatchesOf(p) = <<>> THEN NoId ELSE Trim(MatchesOf(p)[1].value)

\* the first matching field whose value is more than white space
FirstNonBlankMatch(p) ==
    LET found == SelectSeq(MatchesOf(p), LAMBDA f : Trim(f.value) # <<>>)
    IN  IF found = <<>> THEN NoId ELSE Trim(found[1].value)

(***************************************************************************)
(* C24: extractConversationId returns null for a payload that is not an    *)
(* object, and for a payload in which no key at any depth contains         *)
(* "conversation" or "session" and no object has a type whose value does.  *)
(***************************************************************************)
NoShapedKey(p) == \A i \in 1..Len(NodesOf(p)) : ~HasShapedKey(NodesOf(p)[i])
NoShapedType(p) == \A i \in 1..Len(NodesOf(p)) : ~HasShapedType(NodesOf(p)[i])

C24_NoShapeNoId ==
    returned # <<>> =>
        /\ (~IsObject(argument) => returned[1] = NoId)
        /\ ((NoShapedKey(argument) /\ NoShapedType(argument)) => returned[1] = NoId)

\* C24 as stated: no key at any depth contains "conversation" or "session",
\* or the payload is not an object; then the result is null.
C24_NoShapedKeyNoId ==
    returned # <<>> =>
        ((~IsObject(argument) \/ NoShapedKey(argument)) => returned[1] = NoId)

\* an object two levels down holds a non-blank id beside a type that names
\* nothing, and nothing was extracted
C24_Witness ==
    /\ returned = <<NoId>>
    /\ NoShapedKey(argument) /\ NoShapedType(argument)
    /\ Len(NodesOf(argument)) = 2
    /\ LET node == NodesOf(argument)[2]
       IN  /\ Get(node, S_id) = JStr(C1Id)
           /\ Get(node, S_type) = JStr(C1Id)

(***************************************************************************)
(* C25: extractConversationId returns the trimmed value of the first field *)
(* in breadth-first order, fields in their order within an object, whose   *)
(* value is a string that is not blank and whose lower-cased key contains  *)
(* "id" together with "conversation" or "session", or is "id" in an object *)
(* that has a type value or a key containing "conversation" or "session";  *)
(* null when there is none.                                                *)
(***************************************************************************)
C25_FirstNonBlankMatch ==
    returned # <<>> => returned[1] = FirstNonBlankMatch(argument)

\* C25 as stated: the first field that matches by its key wins.
C25_FirstMatch ==
    returned # <<>> => returned[1] = FirstMatch(argument)

\* a match below the root was passed over for a later one nearer the root
C25_Witness ==
    /\ returned = <<C1Id>>
    /\ Len(NodesOf(argument)) = 4
    /\ Get(NodesOf(argument)[4], S_sessionId) = JStr(<<" ">> \o C2Id \o <<" ">>)
    /\ Get(NodesOf(argument)[3], S_conversationId) = JStr(C1Id)

(***************************************************************************)
(* renderResult and the end of handlePrompt on their own: called once on a *)
(* result whose content is absent, not a list, or a list of up to MaxItems *)
(* items, flagged isError or not.                                          *)
(***************************************************************************)
MaxItems == 2

ContentItems ==
    {TextItem(<<"h","i">>), TextItem(<<" ">>), TextItem(<<>>),
     JObj(<<(<<S_type, JStr(S_text)>>)>>),
     JObj(<<(<<S_type, JStr(S_tool)>>)>>),
     JObj(<<(<<S_type, JStr(S_tool)>>), (<<S_output, JStr(<<"o","k","\n">>)>>)>>),
     JObj(<<>>), JNull, JStr(<<>>), JStr(<<" ">>)}

ContentLists == UNION {[1..n -> ContentItems] : n \in 0..MaxItems}

RenderResults ==
    {JObj(<<(<<S_content, JArr(items)>>)>> \o flag) :
        items \in ContentLists,
        flag \in {<<>>, <<(<<S_isError, JBool(TRUE)>>)>>, <<(<<S_isError, JBool(FALSE)>>)>>}}
    \cup {JObj(flag) : flag \in {<<>>, <<(<<S_isError, JBool(TRUE)>>)>>}}
    \cup {JObj(<<(<<S_content, JStr(<<"h","i">>)>>)>>), JNull, Undefined, JStr(<<>>)}

InitRender == InitWith(DefaultRpcTimeoutMs) /\ argument \in RenderResults /\ returned = <<>>

Render ==
    /\ returned = <<>>
    /\ returned' = <<replyText(argument)>>
    /\ argument' = argument
    /\ Commit(Cur)

SpecRender == InitRender /\ [][Render]_vars

(***************************************************************************)
(* C26: the text of a prompt's reply is never empty.  A result that is not *)
(* flagged isError and whose content is absent, empty, or made of items    *)
(* that render to white space gives the no-content placeholder; flagged    *)
(* isError, it fails with the internal-error message.                      *)
(***************************************************************************)
IsBlank(s) == \A i \in 1..Len(s) : IsSpace(s[i])

NothingToRender(result) ==
    LET content == Get(result, S_content)
    IN  content.t = "arr" =>
            \A i \in 1..Len(content.e) :
                Truthy(content.e[i][2]) => IsBlank(renderItem(content.e[i][2]))

C26_ReplyNeverEmpty ==
    returned # <<>> =>
        LET reply == returned[1]
        IN  /\ Len(reply.text) > 0
            /\ ~IsBlank(reply.text)
            /\ reply.failed <=> Get(argument, S_isError) = JBool(TRUE)
            /\ NothingToRender(argument) =>
                   reply.text = IF reply.failed THEN M_internalError ELSE M_noContent

\* a result of two blank text items gave the placeholder
C26_Witness ==
    /\ returned = <<[failed |-> FALSE, text |-> M_noContent]>>
    /\ Get(argument, S_content) = JArr(<<TextItem(<<" ">>), TextItem(<<>>)>>)

(***************************************************************************)
(* C27: getStatusReport changes nothing: it creates no session and leaves  *)
(* every queue, binding, rollout path and processing flag as it was.  For  *)
(* a chat without a session it reports queue length 0, conversation "none" *)
(* and rollout "n/a"; for a chat with one, that session's.                 *)
(***************************************************************************)
NoSessionReport ==
    [ready |-> codexReady, queueLength |-> 0, conversation |-> S_none, rollout |-> S_na]

C27_StatusReadOnly ==
    \A chatId \in ChatIds :
        LET r == getStatusReport(Cur, chatId)
        IN  /\ r.st = Cur
            /\ chatId \notin DOMAIN sessions => r.report = NoSessionReport
            /\ chatId \in DOMAIN sessions =>
                   LET session == heap[sessions[chatId]]
                   IN  /\ r.report.queueLength = Len(session.messageQueue)
                       /\ session.conversationId # NoId =>
                              r.report.conversation = session.conversationId
                       /\ session.conversationId = NoId => r.report.conversation = S_none

\* the report was asked for the other chat while the configured chat's
\* session was bound and had a prompt queued, and it is the empty one
C27_Witness ==
    /\ returned # <<>>
    /\ argument = JStr(OtherChatId)
    /\ returned[1].queueLength = 0 /\ returned[1].conversation = S_none
    /\ returned[1].rollout = S_na
    /\ DOMAIN sessions = {ConfigChatId}
    /\ heap[sessions[ConfigChatId]].conversationId # NoId
    /\ heap[sessions[ConfigChatId]].messageQueue # <<>>

(***************************************************************************)
(* C28: an update from a chat other than the configured one changes no     *)
(* state of the bridge, whether it carries a prompt or a command: no       *)
(* session is created, nothing is enqueued, dispatched or reset.  The      *)
(* registry therefore holds at most one session, keyed by the configured   *)
(* chat id.                                                                *)
(***************************************************************************)
C28_LockedToChat ==
    /\ \A command \in {"prompt", "/reset"} :
           handleUpdate(Cur, OtherChatId, command, nPrompts + 1) = Cur
    /\ DOMAIN sessions \subseteq {ConfigChatId}
    /\ Cardinality(DOMAIN sessions) <= 1

\* a poll loop is delivering updates while the configured chat's session is
\* bound, is processing a prompt and has another one queued: an update from
\* the other chat finds state it could disturb
C28_Witness ==
    /\ \E k \in DOMAIN poll : poll[k] = "polling"
    /\ ~uncaught
    /\ DOMAIN sessions = {ConfigChatId}
    /\ LET session == heap[sessions[ConfigChatId]]
       IN  /\ session.processing
           /\ session.conversationId # NoId
           /\ session.messageQueue # <<>>
    /\ handleUpdate(Cur, ConfigChatId, "/reset", 0) # Cur

(***************************************************************************)
(* C29: the id of a request is the value of a counter that only grows, is  *)
(* advanced by every sendRpc and is never reset, not by stop() nor by a    *)
(* later start(): the n-th request of the bridge has id n, so no id is     *)
(* assigned twice.  Every key of rpcPending is the id of a request that    *)
(* was written to a backend process and was settled neither by a response  *)
(* nor by its timeout.                                                     *)
(***************************************************************************)
C29_PendingAreOutstanding ==
    /\ rpcCounter = Len(written) + 1
    /\ \A id \in DOMAIN rpcPending :
          /\ id \in DOMAIN written
          /\ written[id].proc # 0
          /\ written[id].method = rpcPending[id].method
          /\ id \notin timedOut
          /\ \A i \in DOMAIN settled : settled[i].id # id

C29_CounterGrows ==
    /\ rpcCounter' >= rpcCounter
    /\ \A id \in DOMAIN written : id \in DOMAIN written' /\ written'[id] = written[id]
    /\ DOMAIN rpcPending' \ DOMAIN rpcPending \subseteq rpcCounter .. (rpcCounter' - 1)

C29_IdsNeverReused == []C29_PendingAreOutstanding /\ [][C29_CounterGrows]_vars

\* the bridge was stopped and started again: a request of the second run is
\* pending under an id above those of the first run, one of which was
\* answered and another timed out
C29_Witness ==
    /\ Len(proc) = 2
    /\ 1 \in stopSeen
    /\ \E id \in DOMAIN rpcPending :
          /\ written[id].proc = 2
          /\ \E old \in 1..(id - 1) : written[old].proc = 1
    /\ \E i \in DOMAIN settled : settled[i].cause # "timeout"
    /\ timedOut # {}

(***************************************************************************)
(* C30: the handshake of a run is ordered.  tools/list is written to a     *)
(* backend process only after that process answered initialize; ready is   *)
(* set only after the current process answered tools/list; a tools/call is *)
(* written only to a process that answered tools/list, and processQueue    *)
(* leaves the state alone while the bridge is not ready or the session is  *)
(* processing.  A handshake call that fails or times out raises the fatal  *)
(* signal and leaves ready false.                                          *)
(***************************************************************************)
Handshake == {S_initialize, S_toolsList}

\* process p answered a call of this method with a result
AnsweredBy(p, method) ==
    \E id \in DOMAIN written :
        /\ written[id].proc = p
        /\ written[id].method = method
        /\ \E i \in DOMAIN settled : settled[i] = Settlement(id, "resolved")

C30_OrderOfWrites ==
    \A id \in DOMAIN written :
        LET p == written[id].proc
        IN  p # 0 =>
              /\ written[id].method = S_toolsList => AnsweredBy(p, S_initialize)
              /\ written[id].method = S_toolsCall => AnsweredBy(p, S_toolsList)
              /\ written[id].method = S_initialize =>
                     \A other \in 1..(id - 1) : written[other].proc # p

C30_ReadyAfterList ==
    codexReady =>
        \E p \in DOMAIN proc :
            /\ AnsweredBy(p, S_initialize) /\ AnsweredBy(p, S_toolsList)
            /\ codexProcess # 0 => p = codexProcess

C30_NoDispatchUnlessReady ==
    \A s \in Registered(Cur) :
        (~codexReady \/ heap[s].processing) => processQueue(Cur, s) = Cur

C30_FailureIsFatal ==
    \A id \in DOMAIN rpcPending :
        rpcPending[id].method \in Handshake =>
            /\ ~codexReady
            /\ rpcPending[id].timeout =>
                   LET st == rpcTimeoutFired(Cur, id)
                   IN  st.fatalEmitted /\ ~st.codexReady
            /\ \A m \in ErrorMessages :
                   LET st == handleCodexLine(Cur, Message(id, <<>>, Undefined, Undefined,
                                                          ErrorObject(m)))
                   IN  st.fatalEmitted /\ ~st.codexReady

C30_HandshakeOrdered ==
    /\ C30_OrderOfWrites
    /\ C30_ReadyAfterList
    /\ C30_NoDispatchUnlessReady
    /\ C30_FailureIsFatal

(***************************************************************************)
(* C31: in a run without stop and reset in which every call is settled by  *)
(* an answer or by its timeout, a prompt that waits in a session's queue   *)
(* is dispatched in the end, unless the handshake failed; this includes    *)
(* the prompts queued before the handshake completed.                      *)
(***************************************************************************)
Queued(n) == \E s \in DOMAIN heap : \E i \in DOMAIN heap[s].messageQueue :
                 heap[s].messageQueue[i] = n

Dispatched(n) == \E i \in DOMAIN calls : calls[i].prompt = n

C31_QueueDrains ==
    \A n \in 1..MaxPrompts : Queued(n) ~> (Dispatched(n) \/ fatalEmitted)

\* the same when, in addition, no reply stays on its way to Telegram for ever
C31_QueueDrainsWhenDelivered ==
    ([]<>(sending = {})) => C31_QueueDrains

\* the drain is never left undone: a session that is neither processing nor
\* empty exists only while the bridge is not ready
C31_NothingLeftWaiting ==
    \A s \in Registered(Cur) :
        (codexReady /\ ~heap[s].processing) => heap[s].messageQueue = <<>>

(***************************************************************************)
(* The fatal listeners.  fatalListeners is a Set: it keeps insertion       *)
(* order, holds a handler once however often it is added, and a for-of     *)
(* loop over it skips what is deleted before being reached.  The handlers  *)
(* are the host's; what one does when invoked is its name.                 *)
(***************************************************************************)
Handlers == {"returns", "throwsError", "throwsNull", "unsubscribesOther"}

\* the handler whose unsubscribe function "unsubscribesOther" calls
Other == "returns"

InSeq(x, seq) == \E i \in DOMAIN seq : seq[i] = x

\* onFatal(handler): Set.add
onFatal(listeners, handler) ==
    IF InSeq(handler, listeners) THEN listeners ELSE Append(listeners, handler)

\* the function onFatal returns: Set.delete
unsubscribe(listeners, handler) == SelectSeq(listeners, LAMBDA h : h # handler)

\* the loop of emitFatal from the handlers not yet visited: the handlers
\* invoked, in order, the listeners left, and whether the loop was left by
\* an exception.  The catch block reads err.message, which throws a
\* TypeError when the value thrown is null or undefined.
RECURSIVE invokeHandlers(_, _, _)
invokeHandlers(listeners, visited, invoked) ==
    LET left == SelectSeq(listeners, LAMBDA h : h \notin visited)
    IN  IF left = <<>> THEN [invoked |-> invoked, listeners |-> listeners, threw |-> FALSE]
        ELSE LET handler == Head(left)
                 log == Append(invoked, handler)
             IN  IF handler = "throwsNull"
                 THEN [invoked |-> log, listeners |-> listeners, threw |-> TRUE]
                 ELSE invokeHandlers(IF handler = "unsubscribesOther"
                                     THEN unsubscribe(listeners, Other)
                                     ELSE listeners,
                                     visited \cup {handler}, log)

\* the registry of the listeners is the state of this specification
fatalListeners == argument

InitFatal == InitWith(DefaultRpcTimeoutMs) /\ argument = <<>> /\ returned = <<>>

OnFatal ==
    \E handler \in Handlers :
        /\ returned = <<>>
        /\ argument' = onFatal(fatalListeners, handler)
        /\ returned' = returned
        /\ Commit(Cur)

Unsubscribe ==
    \E handler \in Handlers :
        /\ returned = <<>>
        /\ argument' = unsubscribe(fatalListeners, handler)
        /\ returned' = returned
        /\ Commit(Cur)

\* the one emission of a run
EmitFatal ==
    /\ returned = <<>>
    /\ LET r == invokeHandlers(fatalListeners, {}, <<>>)
       IN  /\ returned' = <<[registered |-> fatalListeners, invoked |-> r.invoked,
                             threw |-> r.threw]>>
           /\ argument' = r.listeners
    /\ Commit(Cur)

NextFatal == OnFatal \/ Unsubscribe \/ EmitFatal

SpecFatal == InitFatal /\ [][NextFatal]_vars

(***************************************************************************)
(* C32: when the fatal signal is emitted, every listener registered at     *)
(* that moment is invoked exactly once, whatever the listeners before it   *)
(* did, and no other handler is invoked; emitFatal itself does not throw.  *)
(***************************************************************************)
Times(handler, seq) == Cardinality({i \in DOMAIN seq : seq[i] = handler})

C32_AllListenersInvoked ==
    returned # <<>> =>
        LET r == returned[1]
        IN  /\ \A handler \in Handlers :
                  Times(handler, r.invoked) = IF InSeq(handler, r.registered) THEN 1 ELSE 0
            /\ ~r.threw

\* the same for listeners that return or throw an Error
C32_WellBehavedInvoked ==
    (/\ returned # <<>>
     /\ \A i \in DOMAIN returned[1].registered :
            returned[1].registered[i] \in {"returns", "throwsError"})
    => /\ returned[1].invoked = returned[1].registered
       /\ ~returned[1].threw

(***************************************************************************)
(* The tail buffer.  appendTail splits the text at line ends, drops the    *)
(* empty parts, pushes the rest and then shifts while the buffer is longer *)
(* than config.exitLogLines.  The loop is taken one iteration at a time,   *)
(* so that its termination is a property of the behaviours.  The state is  *)
(* kept in `argument` (the buffer, the capacity, the position in           *)
(* appendTail) and `returned` (every part pushed so far, in arrival order).*)
(***************************************************************************)
MaxAppends == 2
MaxText == 3

\* toNumber accepts every finite number
Capacities == {-1, 0, 1, 2}
toNumber(value, fallback) == IF value \in Int THEN value ELSE fallback

TextChars == {"a", "b", "\n", "\r"}
Texts == UNION {[1..n -> TextChars] : n \in 0..MaxText}

\* text.split(/\r?\n/): the pieces between the line ends, empty ones included
RECURSIVE split(_, _)
split(text, piece) ==
    IF text = <<>> THEN <<piece>>
    ELSE IF Head(text) = "\n" THEN <<piece>> \o split(Tail(text), <<>>)
    ELSE IF Head(text) = "\r" /\ Len(text) > 1 /\ text[2] = "\n"
         THEN <<piece>> \o split(Tail(Tail(text)), <<>>)
    ELSE split(Tail(text), Append(piece, Head(text)))

\* .filter(Boolean)
parts(text) == SelectSeq(split(text, <<>>), LAMBDA piece : piece # <<>>)

\* Array.prototype.shift, which leaves an empty array as it is
shift(array) == IF array = <<>> THEN array ELSE Tail(array)

recentTail == argument.recentTail
exitLogLines == argument.exitLogLines
arrived == returned

InitTail ==
    /\ InitWith(DefaultRpcTimeoutMs)
    /\ \E n \in Capacities :
           argument = [recentTail |-> <<>>, exitLogLines |-> toNumber(n, 40),
                       pc |-> "idle", appends |-> 0]
    /\ returned = <<>>

\* appendTail(text) up to its while loop
AppendTail ==
    \E text \in Texts :
        /\ argument.pc = "idle"
        /\ argument.appends < MaxAppends
        /\ argument' = [argument EXCEPT !.recentTail = @ \o parts(text),
                                        !.pc = "while",
                                        !.appends = @ + 1]
        /\ returned' = arrived \o parts(text)
        /\ Commit(Cur)

\* one turn of `while (this.recentTail.length > this.config.exitLogLines)`
TailLoop ==
    /\ argument.pc = "while"
    /\ argument' = IF Len(recentTail) > exitLogLines
                   THEN [argument EXCEPT !.recentTail = shift(@)]
                   ELSE [argument EXCEPT !.pc = "idle"]
    /\ returned' = returned
    /\ Commit(Cur)

NextTail == AppendTail \/ TailLoop

SpecTail == InitTail /\ [][NextTail]_vars /\ WF_vars(TailLoop)

(***************************************************************************)
(* C33: for every capacity the loader accepts, an append terminates, and   *)
(* after it the buffer holds at most that many lines: the most recent      *)
(* non-empty lines, in arrival order.                                      *)
(***************************************************************************)
LastOf(seq, n) ==
    IF n >= Len(seq) THEN seq ELSE SubSeq(seq, Len(seq) - n + 1, Len(seq))

C33_HoldsMostRecent ==
    (argument.pc = "idle" /\ argument.appends > 0) =>
        /\ Len(recentTail) <= exitLogLines
        /\ recentTail = LastOf(arrived, exitLogLines)

C33_AppendTerminates == (argument.pc = "while") ~> (argument.pc = "idle")

C33_TailBounded == []C33_HoldsMostRecent /\ C33_AppendTerminates

\* the same for the capacities that are not negative
C33_TailBoundedFromZero == (exitLogLines >= 0) => C33_TailBounded

(***************************************************************************)
(* The lines exchanged with the backend and what appendTail is called      *)
(* with.  `argument` is the sequence of the lines exchanged, each with its *)
(* direction; `returned` is the sequence of the parts appended to the      *)
(* tail (the capacity is taken larger than MaxLines, so nothing is         *)
(* shifted out).                                                           *)
(***************************************************************************)
MaxLines == 3

L_response == <<"{","\"","i","d","\"",":","1","}">>
L_event == <<"{","e","v","e","n","t","s","/","x","}">>
L_codexEvent == <<"{","c","o","d","e","x","/","e","v","e","n","t","}">>
L_request == <<"{","i","d",":","9",",","p","i","n","g","}">>
S_eventsPrefix == <<"e","v","e","n","t","s","/">>
S_eventsX == <<"e","v","e","n","t","s","/","x">>

\* the lines a backend prints, with the method of the message each parses to
InboundLines ==
    {[text |-> L_response, method |-> <<>>],
     [text |-> L_event, method |-> S_eventsX],
     [text |-> L_codexEvent, method |-> S_codexEvent],
     [text |-> L_request, method |-> S_elicitation],
     [text |-> <<>>, method |-> <<>>]}

\* the payloads of sendRpc, sendNotification and sendResponse
OutboundLines ==
    {<<"{","1",":","i","n","i","t","i","a","l","i","z","e","}">>,
     <<"{","i","n","i","t","i","a","l","i","z","e","d","}">>,
     <<"{","9",":","e","r","r","o","r","}">>}

exchanged == argument
tail == returned

InitMirror == InitWith(DefaultRpcTimeoutMs) /\ argument = <<>> /\ returned = <<>>

\* stdoutRl.on('line'): appendTail(line), then handleCodexLine(line), whose
\* handleCodexNotification appends `${method}: ${JSON.stringify(params)}`
\* for the methods that start with events/
StdoutLine ==
    \E line \in InboundLines :
        /\ Len(exchanged) < MaxLines
        /\ argument' = Append(exchanged, [dir |-> "in", text |-> line.text])
        /\ returned' =
               LET mirrored == tail \o parts(line.text)
               IN  IF Len(line.method) > 0 /\ StartsWith(line.method, S_eventsPrefix)
                   THEN mirrored \o parts(line.method \o <<":", " ", "{", "}">>)
                   ELSE mirrored
        /\ Commit(Cur)

\* writeCodex(text): stdin.write, and nothing else
WriteCodex ==
    \E text \in OutboundLines :
        /\ Len(exchanged) < MaxLines
        /\ argument' = Append(exchanged, [dir |-> "out", text |-> text])
        /\ returned' = tail
        /\ Commit(Cur)

NextMirror == StdoutLine \/ WriteCodex

SpecMirror == InitMirror /\ [][NextMirror]_vars

(***************************************************************************)
(* C34: every line exchanged with the backend, inbound or outbound, is in  *)
(* the tail as often as it was exchanged: appended once when received or   *)
(* sent.                                                                   *)
(***************************************************************************)
Exchanged(dir, text) ==
    Cardinality({i \in DOMAIN exchanged : exchanged[i] = [dir |-> dir, text |-> text]})

C34_InboundMirrored ==
    \A line \in InboundLines :
        line.text # <<>> => Times(line.text, tail) = Exchanged("in", line.text)

C34_OutboundMirrored ==
    \A text \in OutboundLines : Times(text, tail) = Exchanged("out", text)

C34_EveryLineMirrored == C34_InboundMirrored /\ C34_OutboundMirrored

(***************************************************************************)
(* C35: no exception leaves the line handler, whatever the line (blank,    *)
(* malformed, valid JSON that is no message, a response, a request of the  *)
(* backend, a notification) and whatever the state of the transport.       *)
(***************************************************************************)
AnyLines == BlankLines \cup BrokenLines \cup IdOnlyLines \cup {L_null}

C35_LineHandlerNeverThrows ==
    /\ ~uncaught
    /\ readers # {} =>
          /\ \A line \in AnyLines : ~handleCodexText(Cur, line).uncaught
          /\ \A id \in RequestIds :
                 ~handleCodexLine(Cur, Message(id, S_elicitation, JObj(<<>>),
                                               Undefined, Undefined)).uncaught

\* the lines that are handled without an exception in every state: blank
\* and malformed ones, responses, known or not, and notifications
C35_OtherLinesHandled ==
    (readers # {} /\ ~uncaught) =>
        /\ \A line \in AnyLines \ {L_null} : ~handleCodexText(Cur, line).uncaught
        /\ \A id \in 1..rpcCounter, answer \in Answers(S_toolsCall) :
               uncaught \/ ~handleCodexLine(Cur, [answer EXCEPT !.id = id]).uncaught
        /\ \A params \in NoteParams :
               uncaught \/ ~handleCodexLine(Cur, Message(0, S_codexEvent, params,
                                                         Undefined, Undefined)).uncaught

\* a request of the backend is answered without an exception while the
\* current process's stdin is writable
C35_RequestHandledWhenWritable ==
    (readers # {} /\ ~uncaught /\ writeCodexOk(Cur)) =>
        \A id \in RequestIds :
            ~handleCodexLine(Cur, Message(id, S_elicitation, JObj(<<>>),
                                          Undefined, Undefined)).uncaught

(***************************************************************************)
(* C36: a notification never changes the conversation id of a session that *)
(* has one.  An id found in sessionByConversationId is bound again to its  *)
(* owner, which holds it already; any other id goes to a session without a *)
(* binding, or to none.                                                    *)
(***************************************************************************)
AfterNote(params) ==
    handleCodexLine(Cur, Message(0, S_codexEvent, params, Undefined, Undefined))

C36_NotificationKeepsBinding ==
    \A params \in NoteParams \cup {NoteC1} :
        LET st == AfterNote(params)
            conversationId == ExtractedIds[params]
        IN  /\ \A s \in DOMAIN heap :
                  heap[s].conversationId # NoId =>
                      st.heap[s].conversationId = heap[s].conversationId
            /\ conversationId \in DOMAIN sessionByConversationId =>
                  /\ heap[sessionByConversationId[conversationId]].conversationId
                         = conversationId
                  /\ st.heap = heap
                  /\ st.sessionByConversationId = sessionByConversationId

\* a notification brings an id while the session is bound to another one,
\* and one that its session is bound to already
C36_Witness ==
    /\ readers # {} /\ ~uncaught
    /\ nNotes > 0
    /\ \E s \in Registered(Cur) :
          /\ heap[s].conversationId = C2Id
          /\ sessionByConversationId = (C2Id :> s)
          /\ heap[s].processing
          /\ AfterNote(NoteC1) = Cur

(***************************************************************************)
(* C37: once stop() has been requested, no fatal signal is emitted until   *)
(* the next start(): a step that begins with stopRequested set leaves the  *)
(* number of signals emitted in every run as it was.                       *)
(***************************************************************************)
C37_SilentStep ==
    stopRequested => \A i \in DOMAIN fatals : fatals'[i].emitted = fatals[i].emitted

C37_NoFatalAfterStop == [][C37_SilentStep]_vars

\* the exit handler keeps to it
C37_ExitSilentAfterStop ==
    stopRequested =>
        \A p \in DOMAIN proc :
            proc[p] \in {"alive", "broken"} => onExit(Cur, p).fatals = fatals

(***************************************************************************)
(* C38: stop() and the exit of the backend leave rpcPending and rpcCounter *)
(* as they are: no pending call is removed or rejected, no timer is        *)
(* cancelled.  A call that was pending at a stop is settled later by its   *)
(* timeout only, and until then its entry stays, across a later start().   *)
(***************************************************************************)
SamePending(st) == st.rpcPending = rpcPending /\ st.rpcCounter = rpcCounter
                   /\ st.settled = settled /\ st.timedOut = timedOut

C38_StopKeepsPending ==
    /\ SamePending(stop(Cur))
    /\ SamePending(stopFinish(Cur))
    /\ SamePending(startBegin(Cur))
    /\ \A p \in DOMAIN proc : proc[p] \in {"alive", "broken"} => SamePending(onExit(Cur, p))

\* the calls written to a process that was running when stop() was requested
PendingAtStop == {id \in DOMAIN rpcPending : written[id].proc \in stopSeen}

C38_SettledByTimeoutOnly ==
    \A id \in PendingAtStop :
        id \notin DOMAIN rpcPending' => id \in timedOut'

C38_PendingSurvivesStop == []C38_StopKeepsPending /\ [][C38_SettledByTimeoutOnly]_vars

(***************************************************************************)
(* C39: a session object that stop() removed from the registry is left     *)
(* alone afterwards: nothing is dequeued from it, no call is issued for    *)
(* it, and the reverse index never names it again; the prompts it held at  *)
(* the stop are never dispatched to a later backend.                       *)
(***************************************************************************)
Removed == DOMAIN heap \ Registered(Cur)

C39_RemovedStaysPut ==
    \A s \in Removed :
        /\ heap'[s].messageQueue = heap[s].messageQueue
        /\ \A i \in DOMAIN calls' : i > Len(calls) => calls'[i].session # s
        /\ \A id \in DOMAIN sessionByConversationId' : sessionByConversationId'[id] # s

C39_StopDiscardsQueues == [][C39_RemovedStaysPut]_vars
====
